---- MODULE Spec2Model ----
(***************************************************************************)
(* Lazy capsule audit engine (src/models/lazy_capsule_audit): the lazy     *)
(* capsule materializer with its audit-time Merkle tree, and the metadata  *)
(* store with its hash-chained tamper log.                                 *)
(*                                                                         *)
(* SHA-256 is modelled as a collision-free symbolic function: a digest is  *)
(* a value that determines its preimage.  Merkle digests are flat integer  *)
(* sequences in prefix form (<<0, d>> a leaf over data d, <<1>> \o l \o r  *)
(* a node over digests l and r), which is uniquely parseable.              *)
(***************************************************************************)
EXTENDS Integers, Sequences, FiniteSets, TLC

\* ------------------------------------------------------------------ bounds
MaxAdds == 2
MaxAudits == 2
MaxClock == 1
MaxStores == 3

\* A sample id is an int or a str. The decimal digits of a non-negative int,
\* most significant first:
RECURSIVE Digits(_)
Digits(n) == IF n < 10 THEN <<n>> ELSE Append(Digits(n \div 10), n % 10)
\* The int n and the str made of the given characters, as sample ids. The
\* two kinds are different dict keys whatever their characters.
IntId(n) == [kind |-> "int", text |-> Digits(n)]
StrId(chars) == [kind |-> "str", text |-> chars]

\* Inputs: sample ids offered to add_sample / audits, and sample payloads.
SampleIds == {IntId(1), IntId(2)}
DataValues == {1, 2}
\* The sample id lists an auditor may pass, the empty one included.
RequestLists ==
  {<<>>, <<IntId(1)>>, <<IntId(2)>>, <<IntId(1), IntId(2)>>}

\* The one dataset engine of the model and the inputs of its key session
DatasetId == "ds"
SessionId == "session"
Passphrase == "passphrase"
Salt == "salt"

\* Threads that call one engine, or one metadata store, at the same time
Threads == {"t1", "t2"}
\* The local values of a call that has not started
NoLocals == [data |-> 0, missing |-> FALSE, sample_index |-> 0, count |-> 0,
             previous_hash |-> <<>>]

VARIABLES
  now,                    \* wall clock, whole ticks (time.time / datetime.now)
  samples,                \* LazyCapsuler._samples, insertion ordered
  sample_metadata,        \* LazyCapsuler._sample_metadata
  materialized_capsules,  \* LazyCapsuler._materialized_capsules
  performance_metrics,    \* LazyCapsuler._performance_metrics
  sample_registry,        \* MerkleTreeBuilder._sample_registry[dataset_id]
  audit_time_trees,       \* MerkleTreeBuilder._audit_time_trees[dataset_id]
  cached_proofs,          \* MerkleTreeBuilder._cached_proofs
  dataset_hashes,         \* MerkleTreeBuilder._dataset_hashes[dataset_id]
  active_sessions,        \* MasterKeyManager._active_sessions
  nonces_drawn,           \* number of nonces drawn from secrets.token_bytes
  packages,               \* audit packages returned so far, with call-time facts
  result,                 \* the last call and its outcome
  metadata_store,         \* MetadataManager._metadata_store
  tamper_log,             \* MetadataManager._tamper_log
  untrusted,              \* log positions the manager holds as untrusted
  storage_file,           \* the file at MetadataManager.storage_path
  meta_result,            \* the last metadata store call and its outcome
  model_registry,         \* MultiModelRegistry._registry
  version_lineage,        \* MultiModelRegistry._version_lineage
  dataset_models,         \* MultiModelRegistry._dataset_models
  model_datasets,         \* MultiModelRegistry._model_datasets
  registry_stats,         \* MultiModelRegistry._registry_stats
  reg_result,             \* the last registry call, its arguments and outcome
  registry_calls,         \* the registry calls made so far, by operation
  key_managers,           \* each MasterKeyManager: _active_sessions, the
                          \* _cached_salts of its engine, the _master_keys
                          \* of its key hierarchy
  key_log,                \* every key derivation run so far: inputs and key
  envelope,               \* the last encrypt_capsule_data output, as the
                          \* caller holds it (and may change it)
  closed_sessions,        \* sessions removed by close_session, not re-created
  key_result,             \* the last key manager call and its outcome
  key_calls,              \* number of key manager calls made so far
  proof_tree,             \* an audit-time tree, once built
  presented_proof,        \* a MerkleProof presented to a verifier
  proof_verdict,          \* what verify_proof returned for it
  hash_orders,            \* one set of samples in two registration orders
  hash_outcome,           \* the dataset hashes computed for the two orders
  thread_pc,              \* where each thread stands in the call it runs
  thread_local,           \* the local values of each thread's call
  audit_trail,            \* AuditTrailManager: whether the dataset has an
                          \* engine, its _audit_trails entry, _global_metrics
  trail_result,           \* the last AuditTrailManager call and its outcome
  root_registry,          \* a registry of samples whose root is computed
  root_outcome,           \* the roots with and without one of the samples
  proof_cache,            \* a ProofCache, once constructed
  cache_clock,            \* the reading of time.time()
  cache_recency,          \* the cached keys, least recently used first
  cache_result            \* the last ProofCache call and its outcome

engineVars == <<samples, sample_metadata, materialized_capsules,
                performance_metrics, sample_registry, audit_time_trees,
                cached_proofs, dataset_hashes, active_sessions, nonces_drawn,
                packages, result>>
metaVars == <<metadata_store, tamper_log, untrusted, storage_file,
              meta_result>>
registryVars == <<model_registry, version_lineage, dataset_models,
                  model_datasets, registry_stats, reg_result,
                  registry_calls>>
keyVars == <<key_managers, key_log, envelope, closed_sessions, key_result,
             key_calls>>
proofVars == <<proof_tree, presented_proof, proof_verdict>>
hashVars == <<hash_orders, hash_outcome>>
threadVars == <<thread_pc, thread_local>>
trailVars == <<audit_trail, trail_result>>
rootVars == <<root_registry, root_outcome>>
cacheVars == <<proof_cache, cache_clock, cache_recency, cache_result>>
tailVars == <<rootVars, cacheVars>>
lateVars == <<threadVars, trailVars, tailVars>>
auxVars == <<registryVars, keyVars, proofVars, hashVars, lateVars>>
vars == <<now, engineVars, metaVars, auxVars>>

\* ------------------------------------------------------- ordered dict help
\* A Python dict is a sequence of [id, ...] records in insertion order.
Keys(d) == {d[i].id : i \in 1..Len(d)}
KeyList(d) == [i \in 1..Len(d) |-> d[i].id]
IndexOf(d, k) == CHOOSE i \in 1..Len(d) : d[i].id = k
Get(d, k) == d[IndexOf(d, k)]
\* d[k] = v: an existing key keeps its position, a new key is appended.
Put(d, v) ==
  IF v.id \in Keys(d)
    THEN [i \in 1..Len(d) |-> IF d[i].id = v.id THEN v ELSE d[i]]
    ELSE Append(d, v)
\* f[k] = v on a TLA+ function with a growing domain
Assign(f, k, v) == (k :> v) @@ f
EmptyMap == [x \in {} |-> 0]

\* str(sample_id) / f"{sample_id}": the characters of the id, the same for
\* the int 1 and the str "1"
Str(id) == id.text

\* ----------------------------------------------------------------- Merkle
\* hash_sample: SHA-256 of the utf-8 bytes of the sample
hash_sample(sample_data) == <<0, sample_data>>
\* hashlib.sha256(left + right).digest()
Sha256Pair(left, right) == <<1>> \o left \o right

\* A pass that pairs the nodes and moves the last node of an odd level up
\* as it is
NextLevel_promoting(level) ==
  <<>> \o [j \in 1..((Len(level) + 1) \div 2) |->
             IF 2 * j <= Len(level)
               THEN Sha256Pair(level[2 * j - 1], level[2 * j])
               ELSE level[2 * j - 1]]

\* One pass of the while loop of build_tree_during_audit: pair the nodes,
\* the last one with itself on an odd level.
NextLevel(level) ==
  <<>> \o [j \in 1..((Len(level) + 1) \div 2) |->
     Sha256Pair(level[2 * j - 1],
                IF 2 * j <= Len(level) THEN level[2 * j] ELSE level[2 * j - 1])]

RECURSIVE BuildLevels(_)
BuildLevels(level) ==
  IF Len(level) <= 1 THEN <<level>>
  ELSE <<level>> \o BuildLevels(NextLevel(level))

\* build_tree_during_audit over every registered sample, in registry order
build_tree_during_audit(registry, requested_sample_ids) ==
  LET ps == registry.plaintext_samples
      sample_hashes == [i \in 1..Len(ps) |-> hash_sample(ps[i].raw_data)]
      tree_levels == BuildLevels(sample_hashes)
  IN [root_hash |-> tree_levels[Len(tree_levels)][1],
      tree_levels |-> tree_levels,
      sample_count |-> Len(sample_hashes),
      sample_mapping |-> [i \in 1..Len(ps) |->
                            [id |-> ps[i].id, index |-> i - 1,
                             hash |-> sample_hashes[i],
                             original_index |-> ps[i].sample_index]],
      tree_height |-> Len(tree_levels) - 1,
      requested_samples |-> requested_sample_ids]

\* The proof path loop of generate_proof_during_audit (indices from 0).
RECURSIVE ProofPath(_, _, _)
ProofPath(tree_levels, level, current_index) ==
  IF level > Len(tree_levels) - 1 THEN <<>>
  ELSE LET current_level == tree_levels[level]
           is_right_sibling == (current_index % 2 = 0)
           sibling_index == IF is_right_sibling THEN current_index + 1
                            ELSE current_index - 1
           sibling_hash == IF sibling_index < Len(current_level)
                           THEN current_level[sibling_index + 1]
                           ELSE current_level[current_index + 1]
       IN <<[hash |-> sibling_hash, is_right |-> is_right_sibling]>>
          \o ProofPath(tree_levels, level + 1, current_index \div 2)

\* The proof built from the audit-time tree (cache miss branch)
BuildProof(tree, sample_id) ==
  LET sample_info == Get(tree.sample_mapping, sample_id)
  IN [sample_id |-> sample_id,
      sample_hash |-> sample_info.hash,
      proof_path |-> ProofPath(tree.tree_levels, 1, sample_info.index),
      root_hash |-> tree.root_hash,
      tree_size |-> tree.sample_count]

\* MerkleProof.verify
RECURSIVE FoldPath(_, _)
FoldPath(current_hash, path) ==
  IF path = <<>> THEN current_hash
  ELSE FoldPath(IF Head(path).is_right
                  THEN Sha256Pair(current_hash, Head(path).hash)
                  ELSE Sha256Pair(Head(path).hash, current_hash),
                Tail(path))

MerkleProofVerify(proof, expected_root) ==
  LET current_hash == FoldPath(proof.sample_hash, proof.proof_path)
  IN current_hash = expected_root /\ expected_root = proof.root_hash

\* MerkleTreeBuilder.verify_proof: expected_root is <<>> for None
verify_proof(proof, expected_root) ==
  MerkleProofVerify(proof,
                    IF expected_root = <<>> THEN proof.root_hash
                    ELSE expected_root[1])

\* ------------------------------------------------------------ dataset hash
\* Program constants of MerkleTreeBuilder
DEFAULT_CHUNK_SIZE == 1000
LARGE_DATASET_THRESHOLD == 5000

\* Python's order of two str values: by the first differing character, a
\* proper prefix first
RECURSIVE LexLess(_, _)
LexLess(s, t) ==
  IF t = <<>> THEN FALSE
  ELSE IF s = <<>> THEN TRUE
  ELSE IF Head(s) # Head(t) THEN Head(s) < Head(t)
  ELSE LexLess(Tail(s), Tail(t))

\* Lexical order of str(sample_id)
StrLess(a, b) == LexLess(Str(a), Str(b))

\* sorted(sample_data_list, key=lambda x: str(x[0])): a stable sort, equal
\* keys stay in the order of the list
SortedByStr(list) ==
  LET \* the place of list[i]: after the smaller keys and after the equal
      \* keys that come before it in the list
      place == <<>> \o [i \in 1..Len(list) |->
                 1 + Cardinality({j \in 1..Len(list) :
                                    \/ StrLess(list[j].id, list[i].id)
                                    \/ /\ j < i
                                       /\ ~StrLess(list[i].id, list[j].id)})]
  IN <<>> \o [p \in 1..Len(list) |->
               list[CHOOSE i \in 1..Len(list) : place[i] = p]]

\* "sample_id:{id}|data:" + data + "|" for each sample, concatenated
Entries(list) ==
  [i \in 1..Len(list) |-> <<Str(list[i].id), list[i].raw_data>>]

\* SHA-256 of the combined entries of the sorted samples; no chunks
hash_small_dataset_single(sample_data_list) ==
  [dataset_hash |-> [chunked |-> FALSE,
                     pre |-> <<Entries(SortedByStr(sample_data_list))>>],
   chunk_hashes |-> <<>>]

\* SHA-256 over the chunk hashes of the sorted samples, chunk_size per chunk
hash_large_dataset_chunked(sample_data_list, chunk_size) ==
  LET sorted_samples == SortedByStr(sample_data_list)
      n == (Len(sorted_samples) + chunk_size - 1) \div chunk_size
      chunk(c) == SubSeq(sorted_samples, (c - 1) * chunk_size + 1,
                         IF c * chunk_size < Len(sorted_samples)
                           THEN c * chunk_size ELSE Len(sorted_samples))
      chunk_hashes == [c \in 1..n |-> Entries(chunk(c))]
  IN [dataset_hash |-> [chunked |-> TRUE, pre |-> chunk_hashes],
      chunk_hashes |-> chunk_hashes]

\* The DatasetHashInfo computed from the registry (cache miss branch)
ComputeDatasetHashInfo(registry) ==
  LET sample_data_list == registry.plaintext_samples
      total_samples == Len(sample_data_list)
      h == IF total_samples >= LARGE_DATASET_THRESHOLD
             THEN hash_large_dataset_chunked(sample_data_list, DEFAULT_CHUNK_SIZE)
             ELSE hash_small_dataset_single(sample_data_list)
  IN [dataset_hash |-> h.dataset_hash,
      total_samples |-> total_samples,
      chunk_hashes |-> h.chunk_hashes]

\* hash_dataset_comprehensive(dataset_id): the cached info when there is one.
\* cache is <<>> or <<info>>; returns the info and the cache afterwards.
hash_dataset_comprehensive(registry, cache) ==
  IF cache # <<>> THEN [info |-> cache[1], cache |-> cache]
  ELSE LET info == ComputeDatasetHashInfo(registry)
       IN [info |-> info, cache |-> <<info>>]

\* Cache keys of _cached_proofs: "audit_" + dataset_id + ":" + sample_id for
\* audit-time proofs, dataset_id + ":" + sample_id for legacy ones.
AuditCacheKey(sample_id) == [audit_prefix |-> TRUE, sample_id |-> Str(sample_id)]

\* generate_proof_during_audit: the cached proof when there is one
generate_proof_during_audit(tree, proofs, sample_id) ==
  LET cache_key == AuditCacheKey(sample_id)
  IN IF cache_key \in DOMAIN proofs
       THEN [proof |-> proofs[cache_key], proofs |-> proofs]
       ELSE LET proof == BuildProof(tree, sample_id)
            IN [proof |-> proof, proofs |-> Assign(proofs, cache_key, proof)]

\* ------------------------------------------------------------ key manager
\* get_capsule_key with the session's own token mixed into the identifier
get_capsule_key_per_session(session, sample_id) ==
  [passphrase |-> session.passphrase, salt |-> session.salt,
   dataset_id |-> session.dataset_id,
   sample_id |-> <<Str(sample_id), session.created_at>>]

\* get_capsule_key: PBKDF2 and two HMAC steps over the inputs of the session
get_capsule_key(session, sample_id) ==
  [passphrase |-> session.passphrase, salt |-> session.salt,
   dataset_id |-> session.dataset_id, sample_id |-> Str(sample_id)]

\* An Optional argument: None, or the value given
None == <<>>
Some(value) == <<value>>
EmptyBytes == <<>>
\* additional_data or b"" (AESGCM itself reads None as no bytes too)
OrEmptyBytes(additional_data) ==
  IF additional_data = None THEN EmptyBytes ELSE additional_data[1]

\* encrypt_capsule_data: AES-256-GCM under the capsule key and a fresh nonce.
\* The ciphertext (with its tag) is the sealed tuple; bit flips are counted.
encrypt_capsule_data(session, sample_id, data, additional_data, nonce) ==
  [ciphertext |-> [key |-> get_capsule_key(session, sample_id),
                   nonce |-> nonce, plaintext |-> data,
                   aad |-> OrEmptyBytes(additional_data), flipped |-> FALSE],
   nonce |-> nonce,
   additional_data |-> OrEmptyBytes(additional_data)]

\* AESGCM.decrypt succeeds iff key, nonce and aad are those of the sealing
\* and no bit of the ciphertext was changed (decrypt_capsule_data).
DecryptOk(session, sample_id, encrypted_data) ==
  LET c == encrypted_data.ciphertext
  IN /\ ~c.flipped
     /\ c.key = get_capsule_key(session, sample_id)
     /\ c.nonce = encrypted_data.nonce
     /\ c.aad = encrypted_data.additional_data

\* Key managers and the inputs offered to their calls. A salt argument is
\* Optional; secrets.token_bytes gives each engine its own salt.
Managers == {"m1", "m2"}
\* the (manager, session id) pairs called: two sessions of one manager and
\* a session of another manager under an id the first one uses too
KeySlots == {<<"m1", "s1">>, <<"m1", "s2">>, <<"m2", "s1">>}
Credentials ==
  {[passphrase |-> Passphrase, salt |-> None],
   [passphrase |-> Passphrase, salt |-> Some(Salt)],
   [passphrase |-> "other", salt |-> Some(Salt)]}
RandomSalt == [m \in Managers |-> IF m = "m1" THEN "random1" ELSE "random2"]
\* sample ids of both types, two of them with the same characters
KeySampleIds == {IntId(1), StrId(<<1>>), IntId(2)}
AdditionalData == {None, Some(<<"aad">>)}
MaxKeyCalls == 4

\* MasterKeyManager.__init__, with its CryptographicEngine and hierarchy
NewMasterKeyManager ==
  [active_sessions |-> EmptyMap, cached_salts |-> EmptyMap,
   master_keys |-> EmptyMap]

\* f without the key k
Without(f, k) == [x \in (DOMAIN f) \ {k} |-> f[x]]

\* generate_secure_salt(identifier): the cached salt, or a fresh one that
\* is cached
generate_secure_salt(manager, m, identifier) ==
  IF identifier \in DOMAIN manager.cached_salts
    THEN [salt |-> manager.cached_salts[identifier], manager |-> manager]
    ELSE [salt |-> RandomSalt[m],
          manager |-> [manager EXCEPT
                         !.cached_salts = Assign(@, identifier,
                                                 RandomSalt[m])]]

\* create_session keeping the PBKDF2 master key in the hierarchy's cache
create_session_caching(manager, m, session_id, passphrase, dataset_id, salt, token) ==
  LET salted == IF salt = None
                  THEN generate_secure_salt(manager, m, "master")
                  ELSE [salt |-> salt[1], manager |-> manager]
  IN [salted.manager EXCEPT
        !.active_sessions =
          Assign(@, session_id,
                 [dataset_id |-> dataset_id, passphrase |-> passphrase,
                  salt |-> salted.salt, created_at |-> token]),
        !.master_keys =
          Assign(@, session_id,
                 [passphrase |-> passphrase, salt |-> salted.salt])]

\* create_session: the session entry holds the inputs and a session token
create_session(manager, m, session_id, passphrase, dataset_id, salt, token) ==
  LET salted == IF salt = None
                  THEN generate_secure_salt(manager, m, "master")
                  ELSE [salt |-> salt[1], manager |-> manager]
  IN [salted.manager EXCEPT
        !.active_sessions =
          Assign(@, session_id,
                 [dataset_id |-> dataset_id, passphrase |-> passphrase,
                  salt |-> salted.salt, created_at |-> token])]

\* close_session dropping every session of the manager
close_session_all(manager, session_id) ==
  [manager EXCEPT !.active_sessions = EmptyMap]

\* close_session: the entry of session_id, if any, is deleted
close_session(manager, session_id) ==
  IF session_id \in DOMAIN manager.active_sessions
    THEN [manager EXCEPT !.active_sessions = Without(@, session_id)]
    ELSE manager

\* --------------------------------------------------------- lazy capsuler
\* The part of the engine a materialization may change, threaded through
\* the loop of generate_audit_package; error is the exception raised ("" for
\* none).
EngineState ==
  [materialized_capsules |-> materialized_capsules,
   performance_metrics |-> performance_metrics,
   audit_time_trees |-> audit_time_trees,
   cached_proofs |-> cached_proofs,
   dataset_hashes |-> dataset_hashes,
   nonces_drawn |-> nonces_drawn,
   error |-> ""]

\* The capsule assembled by materialize_capsule once the sample is sealed
NewCapsule(sample_id, tree, dataset_hash_info, merkle_proof, encrypted_data) ==
  LET sample_data == Get(samples, sample_id).data
      capsule_id == <<DatasetId, Str(sample_id), now>>
  IN [sample_id |-> sample_id,
      dataset_id |-> DatasetId,
      session_id |-> SessionId,
      encrypted_data |-> encrypted_data,
      merkle_proof |-> merkle_proof,
      metadata |->
        [sample_metadata |-> sample_metadata[sample_id],
         merkle_root |-> tree.root_hash,
         \* hash_capsule_comprehensive: SHA-256 over the capsule id and
         \* the sample, metadata and encryption hashes
         capsule_hash |-> [capsule_id |-> capsule_id,
                           sample_data_hash |-> hash_sample(sample_data),
                           metadata_hash |-> sample_metadata[sample_id],
                           encryption_hash |-> encrypted_data],
         dataset_hash |-> dataset_hash_info.dataset_hash,
         dataset_chunk_count |-> Len(dataset_hash_info.chunk_hashes)],
      created_at |-> now]

\* materialize_capsule from the encryption on: the tree, dataset hash and
\* proof caches are already updated in e1 when the key lookup may fail.
SealCapsule(e1, sample_id, tree, dataset_hash_info, merkle_proof) ==
  IF SessionId \notin DOMAIN active_sessions
    THEN [e1 EXCEPT !.error = "KeyError"]
    ELSE [e1 EXCEPT
            !.materialized_capsules =
              Assign(@, sample_id,
                     NewCapsule(sample_id, tree, dataset_hash_info,
                                merkle_proof,
                                encrypt_capsule_data(
                                  active_sessions[SessionId], sample_id,
                                  Get(samples, sample_id).data,
                                  Some(<<Str(sample_id), DatasetId>>),
                                  e1.nonces_drawn + 1))),
            !.nonces_drawn = @ + 1,
            !.performance_metrics.capsules_materialized = @ + 1]

\* materialize_capsule on a cache miss, given the tree just built, the
\* dataset hash lookup dh and the proof lookup gp
MaterializeMiss(e, sample_id, tree, dh, gp) ==
  SealCapsule([e EXCEPT !.audit_time_trees = <<tree>>,
                        !.dataset_hashes = dh.cache,
                        !.cached_proofs = gp.proofs],
              sample_id, tree, dh.info, gp.proof)

MaterializeRegistered(e, sample_id, tree) ==
  MaterializeMiss(e, sample_id, tree,
                  hash_dataset_comprehensive(sample_registry, e.dataset_hashes),
                  generate_proof_during_audit(tree, e.cached_proofs, sample_id))

\* LazyCapsuler.materialize_capsule; the capsule returned is the one the
\* cache holds for sample_id afterwards.
materialize_capsule(e, sample_id) ==
  IF sample_id \in DOMAIN e.materialized_capsules THEN e
  ELSE IF sample_id \notin Keys(samples)
    THEN [e EXCEPT !.error = "ValueError"]
  ELSE MaterializeRegistered(
         e, sample_id, build_tree_during_audit(sample_registry, <<sample_id>>))

\* MerkleProof.to_dict / AuditCapsule.to_dict: the sample id becomes its
\* string; digests and ciphertext bytes become hex, which from_dict inverts.
ProofToDict(proof) == [proof EXCEPT !.sample_id = Str(proof.sample_id)]
CapsuleToDict(capsule) ==
  [capsule EXCEPT !.sample_id = Str(capsule.sample_id),
                  !.merkle_proof = ProofToDict(capsule.merkle_proof)]
\* AuditCapsule.from_dict keeps the sample id a string
CapsuleFromDict(capsule_data) == capsule_data

\* The loop of generate_audit_package: materialize each requested id in
\* order and stop at the first exception. The iterations over a list of
\* several ids are those over its first half followed by those over the
\* rest, which keeps the evaluation of a long list shallow.
RECURSIVE MaterializeAll(_, _, _)
MaterializeNext(e1, sample_ids, capsules) ==
  IF e1.error # "" THEN [e |-> e1, capsules |-> capsules]
  ELSE [e |-> e1,
        capsules |->
          Append(capsules,
                 CapsuleToDict(e1.materialized_capsules[Head(sample_ids)]))]

MaterializeRest(r, sample_ids) ==
  IF r.e.error # "" THEN r ELSE MaterializeAll(r.e, sample_ids, r.capsules)

MaterializeAll(e, sample_ids, capsules) ==
  IF sample_ids = <<>> THEN [e |-> e, capsules |-> capsules]
  ELSE IF Len(sample_ids) = 1
    THEN MaterializeNext(materialize_capsule(e, Head(sample_ids)),
                         sample_ids, capsules)
  ELSE MaterializeRest(
         MaterializeAll(e, SubSeq(sample_ids, 1, Len(sample_ids) \div 2),
                        capsules),
         SubSeq(sample_ids, Len(sample_ids) \div 2 + 1, Len(sample_ids)))

\* _calculate_speedup() >= 1000.0; a materialization derives a key with
\* 100,000 PBKDF2 rounds, so total_audit_time is at least a millisecond
\* once a capsule was materialized and the quotient is samples/capsules.
SpeedupTargetMet(e) ==
  /\ e.performance_metrics.capsules_materialized # 0
  /\ e.performance_metrics.samples_added
       >= 1000 * e.performance_metrics.capsules_materialized

\* _calculate_memory_efficiency() >= 99.0
MemoryTargetMet(e) ==
  \/ e.performance_metrics.samples_added = 0
  \/ 100 * Cardinality(DOMAIN e.materialized_capsules)
       <= e.performance_metrics.samples_added

\* _verify_patent_targets
verify_patent_targets(e) == SpeedupTargetMet(e) /\ MemoryTargetMet(e)

\* MerkleTreeBuilder.get_tree_info
get_tree_info(e) ==
  IF e.audit_time_trees # <<>>
    THEN [root_hash |-> e.audit_time_trees[1].root_hash,
          sample_count |-> e.audit_time_trees[1].sample_count,
          tree_height |-> e.audit_time_trees[1].tree_height,
          built_during_audit |-> TRUE]
    ELSE [root_hash |-> <<>>,
          sample_count |-> sample_registry.sample_count,
          tree_height |-> -1,
          built_during_audit |-> FALSE]

\* The package assembled by generate_audit_package after the loop
AuditPackage(e, sample_ids, capsules) ==
  [audit_id |-> <<DatasetId, now>>,
   dataset_id |-> DatasetId,
   session_id |-> SessionId,
   requested_samples |-> sample_ids,
   materialized_capsules |-> capsules,
   merkle_tree_info |-> get_tree_info(e),
   comprehensive_hash_info |-> [dataset_hashes |-> e.dataset_hashes],
   created_at |-> now,
   patent_compliance |-> TRUE,
   performance_metrics |->
     [samples_added |-> e.performance_metrics.samples_added,
      capsules_materialized |-> e.performance_metrics.capsules_materialized,
      samples_in_package |-> Len(sample_ids),
      patent_targets_met |-> verify_patent_targets(e)]]

\* --------------------------------------------------------- metadata store
\* Audit ids and record contents (dataset, root, samples, results) offered
AuditIds == {"audit_1", "audit_2"}
Contents == {1}
\* An audit id no stored record carries, written by whoever edits the file
ForgedAuditId == "audit_x"

\* hashlib.sha256(json.dumps(x, sort_keys=True)).hexdigest(): the digest of
\* the canonical JSON of x, <<x>>; None is <<>>.
Sha256Json(x) == <<x>>

\* AuditMetadata.compute_integrity_hash over to_dict(), the log included
compute_integrity_hash(audit_metadata) == Sha256Json(audit_metadata)

\* The chaining that hashes the first entry of the log instead of the last
get_previous_log_hash_first(log) ==
  IF log = <<>> THEN <<>> ELSE Sha256Json(log[1])

\* MetadataManager._get_previous_log_hash
get_previous_log_hash(log) ==
  IF log = <<>> THEN <<>> ELSE Sha256Json(log[Len(log)])

\* MetadataManager._verify_log_chain
verify_log_chain(log_entries) ==
  \A i \in 2..Len(log_entries) :
    log_entries[i].previous_hash = Sha256Json(log_entries[i - 1])

\* The file at storage_path: absent, a whole JSON document, or the leading
\* part of one (open(path, 'w') truncates, json.dump writes piecewise).
MissingFile == [kind |-> "missing", doc |-> <<>>]
CompleteFile(doc) == [kind |-> "complete", doc |-> <<doc>>]
PartialFile(doc) == [kind |-> "partial", doc |-> <<doc>>]

\* The document _save_metadata serializes
Document(store, log) ==
  [metadata_store |-> store, tamper_log |-> log, last_updated |-> now]

\* _save_metadata: the file after a save that completes, that fails to open
\* the file, or that stops while the document is being written
SaveOutcomes == {"ok", "open_failed", "interrupted"}
save_metadata(file, store, log, outcome) ==
  IF outcome = "ok" THEN CompleteFile(Document(store, log))
  ELSE IF outcome = "open_failed" THEN file
  ELSE PartialFile(Document(store, log))

\* The log entry store_audit_metadata builds
LogEntry(audit_metadata, log) ==
  [event |-> "metadata_stored",
   audit_id |-> audit_metadata.audit_id,
   timestamp |-> now,
   integrity_hash |-> compute_integrity_hash(audit_metadata),
   previous_hash |-> get_previous_log_hash(log)]

\* The records a caller may pass: a new record with an empty log, or the
\* record object the store already holds under some id.
NewRecords ==
  {[audit_id |-> a, content |-> c, tamper_evident_log |-> <<>>] :
     a \in AuditIds, c \in Contents}
StoredRecords == {metadata_store[a] : a \in DOMAIN metadata_store}

\* MetadataManager.store_audit_metadata(audit_metadata), its save included
StoreWith(audit_metadata, log_entry, outcome) ==
  /\ tamper_log' = Append(tamper_log, log_entry)
  /\ metadata_store' =
       Assign(metadata_store, audit_metadata.audit_id,
              [audit_metadata EXCEPT
                 !.tamper_evident_log = Append(@, log_entry)])
  /\ storage_file' =
       save_metadata(storage_file, metadata_store', tamper_log', outcome)
  /\ meta_result' =
       [op |-> "store_audit_metadata",
        status |-> IF outcome = "ok" THEN "ok" ELSE "OSError"]

StoreAuditMetadata(audit_metadata, outcome) ==
  /\ Len(tamper_log) < MaxStores
  /\ StoreWith(audit_metadata, LogEntry(audit_metadata, tamper_log), outcome)
  /\ UNCHANGED <<now, untrusted, engineVars, auxVars>>

\* The log positions _load_metadata flags: it assigns the list as read
\* (data.get("tamper_log", [])) and verifies no chain.
UntrustedOnLoad(log) == {}

\* MetadataManager.__init__ / _load_metadata in a new process: a missing or
\* undecodable file gives an empty store.
LoadMetadata ==
  /\ IF storage_file.kind = "complete"
       THEN /\ metadata_store' = storage_file.doc[1].metadata_store
            /\ tamper_log' = storage_file.doc[1].tamper_log
            /\ untrusted' = UntrustedOnLoad(storage_file.doc[1].tamper_log)
       ELSE /\ metadata_store' = EmptyMap
            /\ tamper_log' = <<>>
            /\ untrusted' = {}
  /\ meta_result' = [op |-> "load_metadata", status |-> "ok"]
  /\ UNCHANGED <<now, storage_file, engineVars, auxVars>>

\* Someone edits the stored file: the audit id of log entry k is rewritten
TamperFile(k) ==
  /\ storage_file.kind = "complete"
  /\ k \in 1..Len(storage_file.doc[1].tamper_log)
  /\ storage_file.doc[1].tamper_log[k].audit_id # ForgedAuditId
  /\ storage_file' =
       CompleteFile([storage_file.doc[1] EXCEPT
                       !.tamper_log[k].audit_id = ForgedAuditId])
  /\ UNCHANGED <<now, metadata_store, tamper_log, untrusted, meta_result,
                 engineVars, auxVars>>

MetaTick ==
  /\ now < MaxClock
  /\ now' = now + 1
  /\ UNCHANGED <<engineVars, metaVars, auxVars>>

Init ==
  /\ now = 0
  /\ samples = <<>>
  /\ sample_metadata = EmptyMap
  /\ materialized_capsules = EmptyMap
  /\ performance_metrics = [samples_added |-> 0, capsules_materialized |-> 0]
  /\ sample_registry = [registered |-> FALSE, plaintext_samples |-> <<>>,
                        sample_count |-> 0]
  /\ audit_time_trees = <<>>
  /\ cached_proofs = EmptyMap
  /\ dataset_hashes = <<>>
  /\ active_sessions =
       [s \in {SessionId} |->
          [dataset_id |-> DatasetId, passphrase |-> Passphrase, salt |-> Salt]]
  /\ nonces_drawn = 0
  /\ packages = <<>>
  /\ result = [op |-> "init", status |-> "ok"]
  /\ metadata_store = EmptyMap
  /\ tamper_log = <<>>
  /\ untrusted = {}
  /\ storage_file = MissingFile
  /\ meta_result = [op |-> "init", status |-> "ok"]
  /\ model_registry = <<>>
  /\ version_lineage = EmptyMap
  /\ dataset_models = EmptyMap
  /\ model_datasets = EmptyMap
  /\ registry_stats = [models_registered |-> 0, datasets_tracked |-> 0,
                       lineage_relationships |-> 0, registry_size |-> 0]
  /\ reg_result = [op |-> "init", status |-> "ok"]
  /\ registry_calls = [register |-> 0, checkpoint |-> 0]
  /\ key_managers = [m \in Managers |-> NewMasterKeyManager]
  /\ key_log = {}
  /\ envelope = <<>>
  /\ closed_sessions = {}
  /\ key_result = [op |-> "init", status |-> "ok", derived |-> FALSE]
  /\ key_calls = 0
  /\ proof_tree = <<>>
  /\ presented_proof = <<>>
  /\ proof_verdict = <<>>
  /\ hash_orders = <<>>
  /\ hash_outcome = <<>>
  /\ thread_pc = [t \in Threads |-> "idle"]
  /\ thread_local = [t \in Threads |-> NoLocals]
  /\ audit_trail = [created |-> FALSE, audit_count |-> 0, total_audits |-> 0,
                    total_samples |-> 0]
  /\ trail_result = [op |-> "init", status |-> "ok"]
  /\ root_registry = <<>>
  /\ root_outcome = <<>>
  /\ proof_cache = <<>>
  /\ cache_clock = 0
  /\ cache_recency = <<>>
  /\ cache_result = [op |-> "init"]

\* The clock advances between calls
Tick ==
  /\ now < MaxClock
  /\ now' = now + 1
  /\ UNCHANGED <<samples, sample_metadata, materialized_capsules,
                 performance_metrics, sample_registry, audit_time_trees,
                 cached_proofs, dataset_hashes, active_sessions, nonces_drawn,
                 packages, result, metaVars, auxVars>>

\* MerkleTreeBuilder.register_sample_for_lazy_processing
register_sample_for_lazy_processing(registry, sample_id, sample_data) ==
  [registered |-> TRUE,
   plaintext_samples |->
     Put(registry.plaintext_samples,
         [id |-> sample_id, raw_data |-> sample_data,
          sample_index |-> registry.sample_count]),
   sample_count |-> registry.sample_count + 1]

\* LazyCapsuler.add_sample(sample_id, sample_data)
AddSample(sample_id, sample_data) ==
  /\ performance_metrics.samples_added < MaxAdds
  /\ samples' = Put(samples, [id |-> sample_id, data |-> sample_data])
  /\ sample_registry' =
       register_sample_for_lazy_processing(sample_registry, sample_id,
                                           sample_data)
  /\ sample_metadata' =
       Assign(sample_metadata, sample_id,
              [added_at |-> now, lazy_stored |-> TRUE, encrypted |-> FALSE])
  /\ performance_metrics' =
       [performance_metrics EXCEPT !.samples_added = @ + 1]
  /\ result' = [op |-> "add_sample", status |-> "ok", sample_id |-> sample_id]
  /\ UNCHANGED <<now, materialized_capsules, audit_time_trees, cached_proofs,
                 dataset_hashes, active_sessions, nonces_drawn, packages,
                 metaVars, auxVars>>

\* LazyCapsuler.generate_audit_package(sample_ids): what the call does to
\* the engine
GenerateAuditPackageCall(sample_ids) ==
  /\ Len(packages) < MaxAudits
  /\ IF sample_ids = <<>>
       THEN /\ result' = [op |-> "generate_audit_package",
                          status |-> "ValueError"]
            /\ UNCHANGED <<materialized_capsules, performance_metrics,
                           audit_time_trees, cached_proofs, dataset_hashes,
                           nonces_drawn, packages>>
       ELSE \E r \in {MaterializeAll(EngineState, sample_ids, <<>>)} :
               /\ materialized_capsules' = r.e.materialized_capsules
               /\ performance_metrics' = r.e.performance_metrics
               /\ audit_time_trees' = r.e.audit_time_trees
               /\ cached_proofs' = r.e.cached_proofs
               /\ dataset_hashes' = r.e.dataset_hashes
               /\ nonces_drawn' = r.e.nonces_drawn
               /\ IF r.e.error # ""
                    THEN /\ packages' = packages
                         /\ result' = [op |-> "generate_audit_package",
                                       status |-> r.e.error]
                    ELSE /\ packages' =
                              Append(packages,
                                     [package |-> AuditPackage(r.e, sample_ids,
                                                               r.capsules),
                                      registered |->
                                        sample_registry.plaintext_samples])
                         /\ result' = [op |-> "generate_audit_package",
                                       status |-> "ok"]
  /\ UNCHANGED <<now, samples, sample_metadata, sample_registry,
                 active_sessions>>

\* LazyCapsuler.generate_audit_package(sample_ids), called on the engine
GenerateAuditPackage(sample_ids) ==
  /\ GenerateAuditPackageCall(sample_ids)
  /\ UNCHANGED <<metaVars, auxVars>>

\* MerkleTreeBuilder.clear_cache(dataset_id): drops the keys that start with
\* dataset_id + ":", which the "audit_" keys do not.
clear_cache(proofs) ==
  [k \in {x \in DOMAIN proofs : x.audit_prefix} |-> proofs[k]]

\* LazyCapsuler.cleanup
Cleanup ==
  /\ materialized_capsules' = EmptyMap
  /\ cached_proofs' = clear_cache(cached_proofs)
  /\ active_sessions' = EmptyMap
  /\ result' = [op |-> "cleanup", status |-> "ok"]
  /\ UNCHANGED <<now, samples, sample_metadata, performance_metrics,
                 sample_registry, audit_time_trees, dataset_hashes,
                 nonces_drawn, packages, metaVars, auxVars>>

\* ----------------------------------------------------------- verification
\* What an auditor may present: a returned package as it is, with one bit
\* of capsule i's ciphertext flipped, or with capsule i's proof replaced by
\* the (internally consistent) proof of a one-leaf tree over other data.
Tampers(package) ==
  {[kind |-> "none", index |-> 0, data |-> 0]}
  \cup {[kind |-> "flip", index |-> i, data |-> 0] :
          i \in 1..Len(package.materialized_capsules)}
  \cup {[kind |-> "forge", index |-> i, data |-> d] :
          i \in 1..Len(package.materialized_capsules), d \in DataValues}

ForeignProof(sample_id, data) ==
  [sample_id |-> sample_id, sample_hash |-> hash_sample(data),
   proof_path |-> <<>>, root_hash |-> hash_sample(data), tree_size |-> 1]

Tampered(package, t) ==
  IF t.kind = "flip"
    THEN [package EXCEPT
            !.materialized_capsules[t.index].encrypted_data.ciphertext.flipped
              = TRUE]
  ELSE IF t.kind = "forge"
    THEN [package EXCEPT
            !.materialized_capsules[t.index].merkle_proof =
              ForeignProof(@.sample_id, t.data)]
  ELSE package

\* LazyCapsuler.verify_audit_package
verify_audit_package(audit_package) ==
  LET capsules == audit_package.materialized_capsules
      merkle_proofs_valid ==
        \A i \in 1..Len(capsules) :
          verify_proof(CapsuleFromDict(capsules[i]).merkle_proof, <<>>)
      performance_targets_met ==
        audit_package.performance_metrics.patent_targets_met
  IN [package_structure_valid |-> TRUE,
      merkle_proofs_valid |-> merkle_proofs_valid,
      capsule_integrity_valid |-> TRUE,
      performance_targets_met |-> performance_targets_met,
      overall_valid |-> merkle_proofs_valid /\ performance_targets_met]

\* AuditTrailManager.verify_audit_integrity for the manager that owns the
\* engine of the package's dataset
UpdateResults(audit_package, capsule_verification, package_integrity) ==
     [package_integrity |-> package_integrity,
      cryptographic_integrity |-> TRUE,
      package_structure_valid |-> capsule_verification.package_structure_valid,
      merkle_proofs_valid |-> capsule_verification.merkle_proofs_valid,
      capsule_integrity_valid |-> capsule_verification.capsule_integrity_valid,
      performance_targets_met |->
        audit_package.performance_metrics.patent_targets_met,
      patent_compliance |-> audit_package.patent_compliance,
      overall_valid |-> /\ package_integrity
                        /\ capsule_verification.merkle_proofs_valid
                        /\ audit_package.patent_compliance]

verify_audit_integrity(audit_package) ==
  UpdateResults(audit_package, verify_audit_package(audit_package),
                audit_package.dataset_id = DatasetId)

\* A package is presented to AuditTrailManager.verify_audit_integrity, which
\* runs the engine's verify_audit_package on it; both results are recorded.
VerifyAuditIntegrity ==
  \E p \in 1..Len(packages) : \E t \in Tampers(packages[p].package) :
    \E presented \in {Tampered(packages[p].package, t)} :
       /\ result' = [op |-> "verify_audit_integrity", status |-> "ok",
                     of |-> p, tamper |-> t,
                     capsule_verification |-> verify_audit_package(presented),
                     verification_results |-> verify_audit_integrity(presented)]
       /\ UNCHANGED <<now, samples, sample_metadata, materialized_capsules,
                      performance_metrics, sample_registry, audit_time_trees,
                      cached_proofs, dataset_hashes, active_sessions,
                      nonces_drawn, packages, metaVars, auxVars>>

Next ==
  \/ Tick
  \/ \E sample_id \in SampleIds, sample_data \in DataValues :
       AddSample(sample_id, sample_data)
  \/ \E sample_ids \in RequestLists : GenerateAuditPackage(sample_ids)
  \/ Cleanup
  \/ VerifyAuditIntegrity

Spec == Init /\ [][Next]_vars

\* One metadata store used by successive processes
MetaNext ==
  \/ MetaTick
  \/ \E m \in NewRecords \cup StoredRecords, outcome \in SaveOutcomes :
       StoreAuditMetadata(m, outcome)
  \/ LoadMetadata

MetaSpec == Init /\ [][MetaNext]_vars

\* The integrity_hash of the first "metadata_stored" entry of a record's
\* own log: None (<<>>) when there is no such entry
OriginalHash(log_entries) ==
  IF \E i \in 1..Len(log_entries) : log_entries[i].event = "metadata_stored"
    THEN Some(log_entries[CHOOSE i \in 1..Len(log_entries) :
                            /\ log_entries[i].event = "metadata_stored"
                            /\ \A j \in 1..(i - 1) :
                                 log_entries[j].event # "metadata_stored"]
                .integrity_hash)
    ELSE None

\* MetadataManager.verify_metadata_integrity(audit_id)
verify_metadata_integrity(store, audit_id) ==
  IF audit_id \notin DOMAIN store
    THEN [metadata_found |-> FALSE, integrity_valid |-> FALSE]
    ELSE LET metadata == store[audit_id]
             current_hash == compute_integrity_hash(metadata)
             original_hash == OriginalHash(metadata.tamper_evident_log)
         IN [metadata_found |-> TRUE,
             integrity_valid |-> /\ original_hash # None
                                 /\ current_hash = original_hash[1],
             log_chain_valid |->
               verify_log_chain(metadata.tamper_evident_log),
             current_hash |-> current_hash,
             original_hash |-> original_hash]

VerifyMetadataIntegrity(audit_id) ==
  /\ meta_result' = [op |-> "verify_metadata_integrity",
                     status |-> "ok",
                     audit_id |-> audit_id,
                     returned |->
                       verify_metadata_integrity(metadata_store, audit_id)]
  /\ UNCHANGED <<now, metadata_store, tamper_log, untrusted, storage_file,
                 engineVars, auxVars>>

\* The store with its records verified between the calls
MetaVerifyNext ==
  \/ MetaNext
  \/ \E audit_id \in AuditIds : VerifyMetadataIntegrity(audit_id)

MetaVerifySpec == Init /\ [][MetaVerifyNext]_vars

\* The same store with a file that may be edited between processes
MetaTamperNext ==
  \/ MetaNext
  \/ \E k \in 1..MaxStores : TamperFile(k)

MetaTamperSpec == Init /\ [][MetaTamperNext]_vars

\* ---------------------------------------------------------- model registry
\* A str is the sequence of its pieces; no piece is a prefix of another, so
\* two sequences are equal exactly when the strs are.
\* Model versions offered (any str), one of them holding the ":dataset:"
\* separator of the registry keys; dataset hashes offered (lowercase hex, as
\* AuditTrailManager._compute_dataset_hash gives them); model types.
ModelVersions == {<<"v1">>, <<"v1", ":dataset:", "h1">>}
DatasetHashes == {<<"h1">>, <<"h2">>}
ModelTypes == {"ml_model", "fine_tuned"}
\* parent_version: None (<<>>) or a model version
ParentVersions == {<<>>} \cup ModelVersions

MaxRegisters == 2
MaxCheckpoints == 1
\* The depth at which the interpreter ends a recursion with RecursionError;
\* above the longest parent chain without a repeated version
RecursionLimit == 6

\* str(n) of a non-negative int
DigitChars == <<"0", "1", "2", "3", "4", "5", "6", "7", "8", "9">>
IntStr(n) == [i \in 1..Len(Digits(n)) |-> DigitChars[Digits(n)[i] + 1]]

\* The key that leaves the dataset hash out
create_registry_key_version_only(model_version, dataset_hash) ==
  <<"model:">> \o model_version

\* MultiModelRegistry._create_registry_key
create_registry_key(model_version, dataset_hash) ==
  <<"model:">> \o model_version \o <<":dataset:">> \o dataset_hash

\* The values of _registry in insertion order
RegistryValues(reg) == [i \in 1..Len(reg) |-> reg[i].value]
\* isinstance(record, ModelVersionRecord)
IsModelVersionRecord(record) == record.class = "ModelVersionRecord"

\* ModelVersionRecord(...) as register_model_dataset builds it
ModelVersionRecord(model_version, dataset_id, dataset_hash, model_type, parent_version) ==
  [class |-> "ModelVersionRecord",
   model_version |-> model_version,
   dataset_id |-> dataset_id,
   dataset_hash |-> dataset_hash,
   registered_at |-> now,
   model_type |-> model_type,
   parent_version |-> parent_version,
   metadata |-> <<>>]

\* MultiModelRegistry.get_model_record: the record, <<>> for None
get_model_record(reg, model_version, dataset_hash) ==
  IF create_registry_key(model_version, dataset_hash) \in Keys(reg)
    THEN Get(reg, create_registry_key(model_version, dataset_hash)).value
    ELSE <<>>

\* MultiModelRegistry._get_ancestors at recursion depth depth: the first
\* record of the version that has a parent gives the next link.
RECURSIVE get_ancestors(_, _, _)
AncestorsFrom(reg, parent_ancestors, parent_version) ==
  IF parent_ancestors.status # "ok" THEN parent_ancestors
  ELSE [status |-> "ok",
        ancestors |-> <<parent_version>> \o parent_ancestors.ancestors]

get_ancestors(reg, model_version, depth) ==
  IF depth > RecursionLimit
    THEN [status |-> "RecursionError", ancestors |-> <<>>]
  ELSE IF \E i \in 1..Len(reg) :
            /\ IsModelVersionRecord(reg[i].value)
            /\ reg[i].value.model_version = model_version
            /\ reg[i].value.parent_version # <<>>
    THEN AncestorsFrom(
           reg,
           get_ancestors(
             reg,
             reg[CHOOSE i \in 1..Len(reg) :
                   /\ IsModelVersionRecord(reg[i].value)
                   /\ reg[i].value.model_version = model_version
                   /\ reg[i].value.parent_version # <<>>
                   /\ \A j \in 1..(i - 1) :
                        ~(/\ IsModelVersionRecord(reg[j].value)
                          /\ reg[j].value.model_version = model_version
                          /\ reg[j].value.parent_version # <<>>)
                ].value.parent_version,
             depth + 1),
           reg[CHOOSE i \in 1..Len(reg) :
                 /\ IsModelVersionRecord(reg[i].value)
                 /\ reg[i].value.model_version = model_version
                 /\ reg[i].value.parent_version # <<>>
                 /\ \A j \in 1..(i - 1) :
                      ~(/\ IsModelVersionRecord(reg[j].value)
                        /\ reg[j].value.model_version = model_version
                        /\ reg[j].value.parent_version # <<>>)
              ].value.parent_version)
  ELSE [status |-> "ok", ancestors |-> <<>>]

\* MultiModelRegistry.get_model_lineage
LineageOf(model_version, ancestors) ==
  IF ancestors.status # "ok"
    THEN [status |-> ancestors.status]
    ELSE [status |-> "ok",
          model_version |-> model_version,
          ancestors |-> ancestors.ancestors,
          descendants |-> IF model_version \in DOMAIN version_lineage
                            THEN version_lineage[model_version] ELSE <<>>,
          datasets |-> IF model_version \in DOMAIN model_datasets
                         THEN model_datasets[model_version] ELSE {},
          lineage_depth |-> Len(ancestors.ancestors)]

get_model_lineage(model_version) ==
  LineageOf(model_version, get_ancestors(model_registry, model_version, 1))

\* model_type=None of find_compatible_models
NoModelType == "None"

\* MultiModelRegistry.find_compatible_models. The
\* loop reads record.dataset_hash of every value, which a checkpoint dict
\* does not have.
find_compatible_models(reg, dataset_hash, model_type) ==
  IF \E i \in 1..Len(reg) :
       /\ ~IsModelVersionRecord(reg[i].value)
       /\ \A j \in 1..(i - 1) : IsModelVersionRecord(reg[j].value)
    THEN [status |-> "AttributeError", records |-> <<>>]
    ELSE [status |-> "ok",
          records |->
            SelectSeq(RegistryValues(reg),
                      LAMBDA record :
                        /\ record.dataset_hash = dataset_hash
                        /\ (model_type = NoModelType
                            \/ record.model_type = model_type))]

\* MultiModelRegistry.register_model_dataset
RegisterModelDataset(model_version, dataset_hash, model_type, parent_version) ==
  /\ registry_calls.register < MaxRegisters
  /\ registry_calls' = [registry_calls EXCEPT !.register = @ + 1]
  /\ model_registry' =
       Put(model_registry,
           [id |-> create_registry_key(model_version, dataset_hash),
            value |-> ModelVersionRecord(model_version, DatasetId,
                                         dataset_hash, model_type,
                                         parent_version)])
  /\ version_lineage' =
       IF parent_version = <<>> THEN version_lineage
       ELSE Assign(version_lineage, parent_version,
                   Append(IF parent_version \in DOMAIN version_lineage
                            THEN version_lineage[parent_version] ELSE <<>>,
                          model_version))
  /\ dataset_models' =
       Assign(dataset_models, DatasetId,
              (IF DatasetId \in DOMAIN dataset_models
                 THEN dataset_models[DatasetId] ELSE {}) \cup {model_version})
  /\ model_datasets' =
       Assign(model_datasets, model_version,
              (IF model_version \in DOMAIN model_datasets
                 THEN model_datasets[model_version] ELSE {}) \cup {DatasetId})
  /\ registry_stats' =
       [lineage_relationships |->
          registry_stats.lineage_relationships
            + (IF parent_version = <<>> THEN 0 ELSE 1),
        datasets_tracked |->
          registry_stats.datasets_tracked
            + (IF DatasetId \in DOMAIN dataset_models THEN 0 ELSE 1),
        models_registered |->
          registry_stats.models_registered
            + (IF model_version \in DOMAIN model_datasets THEN 0 ELSE 1),
        registry_size |-> Len(model_registry')]
  /\ reg_result' =
       [op |-> "register_model_dataset", status |-> "ok",
        returned |-> create_registry_key(model_version, dataset_hash),
        model_version |-> model_version, dataset_hash |-> dataset_hash,
        model_type |-> model_type, parent_version |-> parent_version]
  /\ UNCHANGED <<now, engineVars, metaVars, lateVars, keyVars, proofVars, hashVars>>

\* MultiModelRegistry.create_version_checkpoint
CheckpointId(model_version) ==
  <<"checkpoint_">> \o model_version \o <<"_">> \o IntStr(now)

CreateVersionCheckpoint(model_version) ==
  /\ registry_calls.checkpoint < MaxCheckpoints
  /\ registry_calls' = [registry_calls EXCEPT !.checkpoint = @ + 1]
  /\ model_registry' =
       Put(model_registry,
           [id |-> <<"checkpoint:">> \o CheckpointId(model_version),
            value |-> [class |-> "dict",
                       checkpoint_id |-> CheckpointId(model_version),
                       model_version |-> model_version,
                       checkpoint_data |-> <<>>,
                       created_at |-> now,
                       datasets |-> IF model_version \in DOMAIN model_datasets
                                      THEN model_datasets[model_version]
                                      ELSE {}]])
  /\ reg_result' = [op |-> "create_version_checkpoint", status |-> "ok",
                    returned |-> CheckpointId(model_version),
                    model_version |-> model_version]
  /\ UNCHANGED <<now, version_lineage, dataset_models, model_datasets,
                 registry_stats, engineVars, metaVars, lateVars, keyVars, proofVars,
                 hashVars>>

RegistryNext ==
  \/ \E model_version \in ModelVersions, dataset_hash \in DatasetHashes,
        model_type \in ModelTypes, parent_version \in ParentVersions :
       RegisterModelDataset(model_version, dataset_hash, model_type,
                            parent_version)
  \/ \E model_version \in ModelVersions :
       CreateVersionCheckpoint(model_version)

RegistrySpec == Init /\ [][RegistryNext]_vars

\* ------------------------------------------------------------ key sessions
\* The calls of MasterKeyManager, on any manager and session id. The token
\* of a session and the nonce of an encryption are fresh random values,
\* named by the number of the call that drew them.
KeyCallAllowed == key_calls < MaxKeyCalls

\* The key lookup that get_capsule_key, encrypt_capsule_data and
\* decrypt_capsule_data start with: KeyError on an unknown session
KeyLookup(m, session_id, sample_id) ==
  LET sessions == key_managers[m].active_sessions
  IN IF session_id \notin DOMAIN sessions
       THEN [status |-> "KeyError", derived |-> FALSE]
       ELSE [status |-> "ok", derived |-> TRUE,
             key |-> get_capsule_key(sessions[session_id], sample_id)]

\* The derivation a lookup ran, added to the log
Logged(m, session_id, sample_id, lookup) ==
  IF lookup.derived
    THEN key_log \cup
           {[manager |-> m, session_id |-> session_id,
             session |-> key_managers[m].active_sessions[session_id],
             sample_id |-> sample_id, key |-> lookup.key]}
    ELSE key_log

CreateSession(m, session_id, passphrase, dataset_id, salt) ==
  /\ KeyCallAllowed
  /\ key_calls' = key_calls + 1
  /\ key_managers' =
       [key_managers EXCEPT
          ![m] = create_session(@, m, session_id, passphrase, dataset_id,
                                salt, key_calls + 1)]
  /\ closed_sessions' = closed_sessions \ {<<m, session_id>>}
  /\ key_result' = [op |-> "create_session", status |-> "ok",
                    derived |-> FALSE, manager |-> m,
                    session_id |-> session_id]
  /\ UNCHANGED <<key_log, envelope>>
  /\ UNCHANGED <<now, engineVars, metaVars, lateVars, registryVars, proofVars, hashVars>>

GetCapsuleKey(m, session_id, sample_id) ==
  /\ KeyCallAllowed
  /\ key_calls' = key_calls + 1
  /\ \E lookup \in {KeyLookup(m, session_id, sample_id)} :
       /\ key_log' = Logged(m, session_id, sample_id, lookup)
       /\ key_result' = [op |-> "get_capsule_key", status |-> lookup.status,
                         derived |-> lookup.derived, manager |-> m,
                         session_id |-> session_id, sample_id |-> sample_id]
  /\ UNCHANGED <<key_managers, envelope, closed_sessions>>
  /\ UNCHANGED <<now, engineVars, metaVars, lateVars, registryVars, proofVars, hashVars>>

EncryptCapsuleData(m, session_id, sample_id, data, additional_data) ==
  /\ KeyCallAllowed
  /\ key_calls' = key_calls + 1
  /\ \E lookup \in {KeyLookup(m, session_id, sample_id)} :
       /\ key_log' = Logged(m, session_id, sample_id, lookup)
       /\ key_result' = [op |-> "encrypt_capsule_data",
                         status |-> lookup.status,
                         derived |-> lookup.derived, manager |-> m,
                         session_id |-> session_id, sample_id |-> sample_id]
       /\ envelope' =
            IF lookup.status = "ok"
              THEN <<[encrypted_data |->
                        encrypt_capsule_data(
                          key_managers[m].active_sessions[session_id],
                          sample_id, data, additional_data, key_calls + 1),
                      manager |-> m, session_id |-> session_id,
                      session |->
                        key_managers[m].active_sessions[session_id],
                      sample_id |-> sample_id, data |-> data,
                      additional_data |-> additional_data,
                      changed |-> "nothing"]>>
              ELSE envelope
  /\ UNCHANGED <<key_managers, closed_sessions>>
  /\ UNCHANGED <<now, engineVars, metaVars, lateVars, registryVars, proofVars, hashVars>>

\* What a holder of the encrypted dict may change before it is decrypted: a
\* bit of the ciphertext body or of the tag at its end, the nonce, or the
\* additional data
EnvelopeChanges == {"ciphertext", "tag", "nonce", "additional_data"}
ChangeEnvelope(part) ==
  /\ envelope # <<>>
  /\ envelope[1].changed = "nothing"
  /\ envelope' =
       <<[envelope[1] EXCEPT
            !.changed = part,
            !.encrypted_data =
              CASE part \in {"ciphertext", "tag"} ->
                     [@ EXCEPT !.ciphertext.flipped = TRUE]
                [] part = "nonce" -> [@ EXCEPT !.nonce = @ + 1]
                [] part = "additional_data" ->
                     [@ EXCEPT !.additional_data = Append(@, "x")]]>>
  /\ UNCHANGED <<key_managers, key_log, closed_sessions, key_result,
                 key_calls>>
  /\ UNCHANGED <<now, engineVars, metaVars, lateVars, registryVars, proofVars, hashVars>>

DecryptCapsuleData(m, session_id, sample_id) ==
  /\ KeyCallAllowed
  /\ envelope # <<>>
  /\ key_calls' = key_calls + 1
  /\ \E lookup \in {KeyLookup(m, session_id, sample_id)} :
       /\ key_log' = Logged(m, session_id, sample_id, lookup)
       /\ key_result' =
            IF lookup.status # "ok"
              THEN [op |-> "decrypt_capsule_data", status |-> lookup.status,
                    derived |-> lookup.derived, manager |-> m,
                    session_id |-> session_id, sample_id |-> sample_id]
              ELSE IF DecryptOk(key_managers[m].active_sessions[session_id],
                                sample_id, envelope[1].encrypted_data)
                THEN [op |-> "decrypt_capsule_data", status |-> "ok",
                      derived |-> TRUE, manager |-> m,
                      session_id |-> session_id, sample_id |-> sample_id,
                      plaintext |->
                        <<envelope[1].encrypted_data.ciphertext.plaintext>>]
                ELSE [op |-> "decrypt_capsule_data", status |-> "InvalidTag",
                      derived |-> TRUE, manager |-> m,
                      session_id |-> session_id, sample_id |-> sample_id]
  /\ UNCHANGED <<key_managers, envelope, closed_sessions>>
  /\ UNCHANGED <<now, engineVars, metaVars, lateVars, registryVars, proofVars, hashVars>>

CloseSession(m, session_id) ==
  /\ KeyCallAllowed
  /\ key_calls' = key_calls + 1
  /\ key_managers' = [key_managers EXCEPT ![m] = close_session(@, session_id)]
  /\ closed_sessions' =
       IF session_id \in DOMAIN key_managers[m].active_sessions
         THEN closed_sessions \cup {<<m, session_id>>}
         ELSE closed_sessions
  /\ key_result' = [op |-> "close_session", status |-> "ok",
                    derived |-> FALSE, manager |-> m,
                    session_id |-> session_id]
  /\ UNCHANGED <<key_log, envelope>>
  /\ UNCHANGED <<now, engineVars, metaVars, lateVars, registryVars, proofVars, hashVars>>

KeyNext ==
  \/ \E slot \in KeySlots, c \in Credentials :
       CreateSession(slot[1], slot[2], c.passphrase, DatasetId, c.salt)
  \/ \E slot \in KeySlots, sample_id \in KeySampleIds :
       GetCapsuleKey(slot[1], slot[2], sample_id)
  \/ \E slot \in KeySlots, additional_data \in AdditionalData :
       EncryptCapsuleData(slot[1], slot[2], IntId(1), 1, additional_data)
  \/ \E slot \in KeySlots :
       DecryptCapsuleData(slot[1], slot[2], IntId(1))
  \/ \E slot \in KeySlots : CloseSession(slot[1], slot[2])

KeySpec == Init /\ [][KeyNext]_vars

\* Encryption round trips: every sample id and additional data, and the
\* encrypted dict changed in the caller's hands
CipherNext ==
  \/ \E slot \in KeySlots, c \in Credentials :
       CreateSession(slot[1], slot[2], c.passphrase, DatasetId, c.salt)
  \/ \E slot \in KeySlots, sample_id \in KeySampleIds,
        additional_data \in AdditionalData :
       EncryptCapsuleData(slot[1], slot[2], sample_id, 1, additional_data)
  \/ \E part \in EnvelopeChanges : ChangeEnvelope(part)
  \/ \E slot \in KeySlots, sample_id \in KeySampleIds :
       DecryptCapsuleData(slot[1], slot[2], sample_id)
  \/ \E slot \in KeySlots : CloseSession(slot[1], slot[2])

CipherSpec == Init /\ [][CipherNext]_vars

\* ----------------------------------------------------------- proof checks
\* A tree is built over a registry of up to MaxLeaves samples; a proof is
\* presented for it, the builder's own or one put together from the nodes
\* of the tree; verify_proof is applied.
MaxLeaves == 4
\* The registry after registering the samples of the list, ids 1, 2, ...
RECURSIVE RegistryOf(_)
RegistryOf(data_list) ==
  IF data_list = <<>>
    THEN [registered |-> FALSE, plaintext_samples |-> <<>>, sample_count |-> 0]
    ELSE register_sample_for_lazy_processing(
           RegistryOf(SubSeq(data_list, 1, Len(data_list) - 1)),
           IntId(Len(data_list)), data_list[Len(data_list)])

BuildTree(data_list) ==
  /\ proof_tree = <<>>
  /\ proof_tree' = <<build_tree_during_audit(RegistryOf(data_list), <<>>)>>
  /\ UNCHANGED <<presented_proof, proof_verdict>>
  /\ UNCHANGED <<now, engineVars, metaVars, lateVars, registryVars, keyVars, hashVars>>

\* MerkleProof(sample_id, sample_hash, proof_path, root_hash, tree_size)
\* for the node at (level, index) of the tree: the sibling path from that
\* node up, without its last `cut` entries, and any claimed tree_size. For
\* a leaf, the tree's size and no cut it is the builder's own proof.
MerkleProof(tree, level, index, tree_size, cut) ==
  LET offered == IF level = 1
                   THEN BuildProof(tree, IntId(index + 1))
                   ELSE [sample_id |-> IntId(index + 1),
                         sample_hash |-> tree.tree_levels[level][index + 1],
                         proof_path |-> ProofPath(tree.tree_levels, level,
                                                  index),
                         root_hash |-> tree.root_hash,
                         tree_size |-> tree.sample_count]
  IN [offered EXCEPT
        !.tree_size = tree_size,
        !.proof_path = SubSeq(@, 1, Len(@) - cut)]

PresentProof(level, index, tree_size, cut) ==
  /\ proof_tree # <<>>
  /\ presented_proof = <<>>
  /\ level \in 1..Len(proof_tree[1].tree_levels)
  /\ index \in 0..(Len(proof_tree[1].tree_levels[level]) - 1)
  /\ cut <= Len(proof_tree[1].tree_levels) - level
  /\ presented_proof' =
       <<MerkleProof(proof_tree[1], level, index, tree_size, cut)>>
  /\ UNCHANGED <<proof_tree, proof_verdict>>
  /\ UNCHANGED <<now, engineVars, metaVars, lateVars, registryVars, keyVars, hashVars>>

\* verify_proof(proof, expected_root), expected_root None or the tree's root
VerifyProof(root_given) ==
  /\ presented_proof # <<>>
  /\ proof_verdict = <<>>
  /\ proof_verdict' =
       <<verify_proof(presented_proof[1],
                      IF root_given THEN Some(proof_tree[1].root_hash)
                      ELSE None)>>
  /\ UNCHANGED <<proof_tree, presented_proof>>
  /\ UNCHANGED <<now, engineVars, metaVars, lateVars, registryVars, keyVars, hashVars>>

ProofNext ==
  \/ \E n \in 1..MaxLeaves : \E data_list \in [1..n -> DataValues] :
       BuildTree(data_list)
  \/ \E level \in 1..(MaxLeaves + 1), index \in 0..(MaxLeaves - 1),
        tree_size \in 1..(MaxLeaves + 1), cut \in {0, 1} :
       PresentProof(level, index, tree_size, cut)
  \/ \E root_given \in BOOLEAN : VerifyProof(root_given)

ProofSpec == Init /\ [][ProofNext]_vars

\* ---------------------------------------------------- dataset hash orders
\* One set of samples registered in two orders, hashed in both forms. The
\* ids offered: ints, one of more than one digit, and a str with the
\* characters of an int.
HashSampleIds == {IntId(1), StrId(<<1>>), IntId(2), IntId(10)}
MaxHashSamples == 3
ChunkSizes == {1, 2}

\* The registry's sample list after registering ids[1], ids[2], ...
SampleList(ids, data) ==
  [i \in 1..Len(ids) |->
     [id |-> ids[i], raw_data |-> data[ids[i]], sample_index |-> i - 1]]

RegisterInTwoOrders(ids, order, data) ==
  /\ hash_orders = <<>>
  /\ \A i, j \in 1..Len(ids) : ids[i] = ids[j] => i = j
  /\ {order[i] : i \in 1..Len(ids)} = 1..Len(ids)
  /\ hash_orders' =
       <<[first |-> SampleList(ids, data),
          second |-> SampleList([i \in 1..Len(ids) |-> ids[order[i]]],
                                data)]>>
  /\ UNCHANGED hash_outcome
  /\ UNCHANGED <<now, engineVars, metaVars, lateVars, registryVars, keyVars, proofVars>>

\* _hash_small_dataset_single and _hash_large_dataset_chunked on both lists
HashBothOrders(chunk_size) ==
  /\ hash_orders # <<>>
  /\ hash_outcome = <<>>
  /\ hash_outcome' =
       <<[single |->
            [first |-> hash_small_dataset_single(hash_orders[1].first),
             second |-> hash_small_dataset_single(hash_orders[1].second)],
          chunked |->
            [first |-> hash_large_dataset_chunked(hash_orders[1].first,
                                                  chunk_size),
             second |-> hash_large_dataset_chunked(hash_orders[1].second,
                                                   chunk_size)]]>>
  /\ UNCHANGED hash_orders
  /\ UNCHANGED <<now, engineVars, metaVars, lateVars, registryVars, keyVars, proofVars>>

HashNext ==
  \/ \E n \in 1..MaxHashSamples :
       \E ids \in [1..n -> HashSampleIds], order \in [1..n -> 1..n],
          data \in [HashSampleIds -> DataValues] :
         RegisterInTwoOrders(ids, order, data)
  \/ \E chunk_size \in ChunkSizes : HashBothOrders(chunk_size)

HashSpec == Init /\ [][HashNext]_vars

\* ------------------------------------------------- concurrent add_sample
\* Each thread calls add_sample once, with a sample id of its own. No lock
\* is taken anywhere in LazyCapsuler or MerkleTreeBuilder, so the threads
\* interleave between any two accesses of the shared dicts; a read of a
\* shared value and the write that depends on it are separate steps.
ThreadSampleId(t) == IF t = "t1" THEN IntId(1) ELSE IntId(2)
AtPc(t, pc) == thread_pc[t] = pc
GoTo(t, pc) == thread_pc' = [thread_pc EXCEPT ![t] = pc]
AddSampleFrame ==
  UNCHANGED <<now, materialized_capsules, audit_time_trees, cached_proofs,
              dataset_hashes, active_sessions, nonces_drawn, packages,
              result, metaVars, registryVars, keyVars, proofVars, hashVars,
              trailVars, tailVars>>

\* add_sample is called
AddSampleCall(t, sample_data) ==
  /\ AtPc(t, "idle")
  /\ GoTo(t, "store_sample")
  /\ thread_local' = [thread_local EXCEPT ![t].data = sample_data]
  /\ UNCHANGED <<samples, sample_registry, sample_metadata,
                 performance_metrics>>
  /\ AddSampleFrame

\* self._samples[sample_id] = sample_data
AddSampleStore(t) ==
  /\ AtPc(t, "store_sample")
  /\ GoTo(t, "check_registry")
  /\ samples' = Put(samples, [id |-> ThreadSampleId(t),
                              data |-> thread_local[t].data])
  /\ UNCHANGED <<thread_local, sample_registry, sample_metadata,
                 performance_metrics>>
  /\ AddSampleFrame

\* if dataset_id not in self._sample_registry
RegisterCheck(t) ==
  /\ AtPc(t, "check_registry")
  /\ GoTo(t, IF sample_registry.registered THEN "read_index"
             ELSE "create_registry")
  /\ thread_local' =
       [thread_local EXCEPT ![t].missing = ~sample_registry.registered]
  /\ UNCHANGED <<samples, sample_registry, sample_metadata,
                 performance_metrics>>
  /\ AddSampleFrame

\* self._sample_registry[dataset_id] = {"plaintext_samples": {}, ...}
RegisterCreate(t) ==
  /\ AtPc(t, "create_registry")
  /\ GoTo(t, "read_index")
  /\ sample_registry' = [registered |-> TRUE, plaintext_samples |-> <<>>,
                         sample_count |-> 0]
  /\ UNCHANGED <<thread_local, samples, sample_metadata,
                 performance_metrics>>
  /\ AddSampleFrame

\* the dict display reads sample_count for "sample_index"
RegisterReadIndex(t) ==
  /\ AtPc(t, "read_index")
  /\ GoTo(t, "store_plaintext")
  /\ thread_local' =
       [thread_local EXCEPT ![t].sample_index = sample_registry.sample_count]
  /\ UNCHANGED <<samples, sample_registry, sample_metadata,
                 performance_metrics>>
  /\ AddSampleFrame

\* ["plaintext_samples"][sample_id] = {...}
RegisterStore(t) ==
  /\ AtPc(t, "store_plaintext")
  /\ GoTo(t, "read_count")
  /\ sample_registry' =
       [sample_registry EXCEPT
          !.plaintext_samples =
            Put(@, [id |-> ThreadSampleId(t),
                    raw_data |-> thread_local[t].data,
                    sample_index |-> thread_local[t].sample_index])]
  /\ UNCHANGED <<thread_local, samples, sample_metadata,
                 performance_metrics>>
  /\ AddSampleFrame

\* ["sample_count"] += 1: the read
RegisterReadCount(t) ==
  /\ AtPc(t, "read_count")
  /\ GoTo(t, "write_count")
  /\ thread_local' =
       [thread_local EXCEPT ![t].count = sample_registry.sample_count]
  /\ UNCHANGED <<samples, sample_registry, sample_metadata,
                 performance_metrics>>
  /\ AddSampleFrame

\* ["sample_count"] += 1: the write
RegisterWriteCount(t) ==
  /\ AtPc(t, "write_count")
  /\ GoTo(t, "store_metadata")
  /\ sample_registry' =
       [sample_registry EXCEPT !.sample_count = thread_local[t].count + 1]
  /\ UNCHANGED <<thread_local, samples, sample_metadata,
                 performance_metrics>>
  /\ AddSampleFrame

\* self._sample_metadata[sample_id] = ...
AddSampleMetadata(t) ==
  /\ AtPc(t, "store_metadata")
  /\ GoTo(t, "read_added")
  /\ sample_metadata' =
       Assign(sample_metadata, ThreadSampleId(t),
              [added_at |-> now, lazy_stored |-> TRUE, encrypted |-> FALSE])
  /\ UNCHANGED <<thread_local, samples, sample_registry,
                 performance_metrics>>
  /\ AddSampleFrame

\* self._performance_metrics["samples_added"] += 1: the read
AddSampleReadAdded(t) ==
  /\ AtPc(t, "read_added")
  /\ GoTo(t, "write_added")
  /\ thread_local' =
       [thread_local EXCEPT ![t].count = performance_metrics.samples_added]
  /\ UNCHANGED <<samples, sample_registry, sample_metadata,
                 performance_metrics>>
  /\ AddSampleFrame

\* self._performance_metrics["samples_added"] += 1: the write
AddSampleWriteAdded(t) ==
  /\ AtPc(t, "write_added")
  /\ GoTo(t, "done")
  /\ performance_metrics' =
       [performance_metrics EXCEPT
          !.samples_added = thread_local[t].count + 1]
  /\ UNCHANGED <<thread_local, samples, sample_registry, sample_metadata>>
  /\ AddSampleFrame

ThreadedAddNext ==
  \E t \in Threads :
    \/ \E sample_data \in DataValues : AddSampleCall(t, sample_data)
    \/ AddSampleStore(t)
    \/ RegisterCheck(t)
    \/ RegisterCreate(t)
    \/ RegisterReadIndex(t)
    \/ RegisterStore(t)
    \/ RegisterReadCount(t)
    \/ RegisterWriteCount(t)
    \/ AddSampleMetadata(t)
    \/ AddSampleReadAdded(t)
    \/ AddSampleWriteAdded(t)

ThreadedAddSpec == Init /\ [][ThreadedAddNext]_vars

\* ---------------------------------------- concurrent store_audit_metadata
\* Each thread stores a new record of its own on one MetadataManager, which
\* takes no lock: the previous hash is read by a call made while the log
\* entry is built, the entry is appended afterwards.
ThreadAuditId(t) == IF t = "t1" THEN "audit_1" ELSE "audit_2"
ThreadRecord(t) ==
  [audit_id |-> ThreadAuditId(t), content |-> thread_local[t].data,
   tamper_evident_log |-> <<>>]
\* The log entry of the thread's call, chained to what it read
ThreadLogEntry(t) ==
  [LogEntry(ThreadRecord(t), <<>>) EXCEPT
     !.previous_hash = thread_local[t].previous_hash]
StoreFrame == UNCHANGED <<now, untrusted, engineVars, registryVars, keyVars,
                          proofVars, hashVars, trailVars, tailVars>>

\* store_audit_metadata is called
StoreCall(t, content) ==
  /\ AtPc(t, "idle")
  /\ GoTo(t, "read_previous")
  /\ thread_local' = [thread_local EXCEPT ![t].data = content]
  /\ UNCHANGED <<metadata_store, tamper_log, storage_file, meta_result>>
  /\ StoreFrame

\* "previous_hash": self._get_previous_log_hash()
StoreReadPrevious(t) ==
  /\ AtPc(t, "read_previous")
  /\ GoTo(t, "append_log")
  /\ thread_local' =
       [thread_local EXCEPT
          ![t].previous_hash = get_previous_log_hash(tamper_log)]
  /\ UNCHANGED <<metadata_store, tamper_log, storage_file, meta_result>>
  /\ StoreFrame

\* self._tamper_log.append(log_entry)
StoreAppendLog(t) ==
  /\ AtPc(t, "append_log")
  /\ GoTo(t, "store_record")
  /\ tamper_log' = Append(tamper_log, ThreadLogEntry(t))
  /\ UNCHANGED <<thread_local, metadata_store, storage_file, meta_result>>
  /\ StoreFrame

\* self._metadata_store[audit_metadata.audit_id] = audit_metadata
StoreRecord(t) ==
  /\ AtPc(t, "store_record")
  /\ GoTo(t, "save")
  /\ metadata_store' =
       Assign(metadata_store, ThreadAuditId(t),
              [ThreadRecord(t) EXCEPT
                 !.tamper_evident_log = <<ThreadLogEntry(t)>>])
  /\ UNCHANGED <<thread_local, tamper_log, storage_file, meta_result>>
  /\ StoreFrame

\* self._save_metadata() and the return
StoreSave(t, outcome) ==
  /\ AtPc(t, "save")
  /\ GoTo(t, "done")
  /\ storage_file' =
       save_metadata(storage_file, metadata_store, tamper_log, outcome)
  /\ meta_result' =
       [op |-> "store_audit_metadata",
        status |-> IF outcome = "ok" THEN "ok" ELSE "OSError"]
  /\ UNCHANGED <<thread_local, metadata_store, tamper_log>>
  /\ StoreFrame

ThreadedStoreNext ==
  \E t \in Threads :
    \/ \E content \in Contents : StoreCall(t, content)
    \/ StoreReadPrevious(t)
    \/ StoreAppendLog(t)
    \/ StoreRecord(t)
    \/ \E outcome \in SaveOutcomes : StoreSave(t, outcome)

ThreadedStoreSpec == Init /\ [][ThreadedStoreNext]_vars

\* ------------------------------------------------------ audit trail manager
\* AuditTrailManager with one dataset: samples are added in batches, audits
\* are requested through generate_compliance_audit or on the engine itself.
FULL_AUDIT_LIMIT == 100
SAMPLE_AUDIT_LIMIT == 10
\* Batch sizes offered, one of them past the limit of a full audit; batches
\* are added while the dataset holds at most MaxAddedTo samples.
BatchSizes == {1, 2, FULL_AUDIT_LIMIT + 1}
MaxAddedTo == 1
\* Audits requested of the dataset of the audit trail manager
MaxTrailAudits == 1
AuditTypes == {"full", "selective", "sample"}
\* sample_ids: None or a list
SelectiveIds == {None, Some(<<>>), Some(<<IntId(1)>>), Some(<<IntId(2), IntId(1)>>)}

\* The first n elements of a list: list[:n]
Prefix(list, n) == SubSeq(list, 1, IF n < Len(list) THEN n ELSE Len(list))

\* The ids of a batch of count samples added to a dataset of n samples
BatchIds(n, count) == [i \in 1..count |-> IntId(n + i)]

\* AuditTrailManager.add_training_samples(dataset_id, samples): add_sample
\* for each sample of the batch, whose ids are new to the dataset
AddTrainingSamples(count, sample_data) ==
  /\ Len(samples) <= MaxAddedTo
  /\ \E ids \in {BatchIds(Len(samples), count)} :
       /\ samples' =
            samples \o [i \in 1..count |->
                          [id |-> ids[i], data |-> sample_data]]
       /\ sample_registry' =
            [registered |-> TRUE,
             plaintext_samples |->
               sample_registry.plaintext_samples
                 \o [i \in 1..count |->
                       [id |-> ids[i], raw_data |-> sample_data,
                        sample_index |->
                          sample_registry.sample_count + i - 1]],
             sample_count |-> sample_registry.sample_count + count]
       /\ sample_metadata' =
            [x \in (DOMAIN sample_metadata) \cup {ids[i] : i \in 1..count} |->
               IF x \in DOMAIN sample_metadata THEN sample_metadata[x]
               ELSE [added_at |-> now, lazy_stored |-> TRUE,
                     encrypted |-> FALSE]]
  /\ performance_metrics' =
       [performance_metrics EXCEPT !.samples_added = @ + count]
  /\ audit_trail' = [audit_trail EXCEPT !.created = TRUE,
                                        !.total_samples = @ + count]
  /\ trail_result' = [op |-> "add_training_samples", status |-> "ok"]
  /\ UNCHANGED <<now, materialized_capsules, audit_time_trees, cached_proofs,
                 dataset_hashes, active_sessions, nonces_drawn, packages,
                 result, metaVars, registryVars, keyVars, proofVars, hashVars,
                 threadVars, tailVars>>

\* The samples generate_compliance_audit selects
SelectedSamples(audit_type, sample_ids) ==
  IF audit_type = "full" THEN Prefix(KeyList(samples), FULL_AUDIT_LIMIT)
  ELSE IF audit_type = "selective" /\ sample_ids # None /\ sample_ids[1] # <<>>
    THEN sample_ids[1]
  ELSE Prefix(KeyList(samples), SAMPLE_AUDIT_LIMIT)

\* AuditTrailManager.generate_compliance_audit(dataset_id, audit_type,
\* sample_ids)
GenerateComplianceAudit(audit_type, sample_ids) ==
  /\ Len(packages) < MaxTrailAudits
  /\ IF ~audit_trail.created
       THEN /\ trail_result' = [op |-> "generate_compliance_audit",
                                status |-> "ValueError",
                                audit_type |-> audit_type,
                                sample_ids |-> sample_ids]
            /\ UNCHANGED <<audit_trail, engineVars, now>>
       ELSE /\ GenerateAuditPackageCall(
                 SelectedSamples(audit_type, sample_ids))
            /\ IF result'.status = "ok"
                 THEN /\ audit_trail' =
                           [audit_trail EXCEPT !.audit_count = @ + 1,
                                               !.total_audits = @ + 1]
                      /\ trail_result' =
                           [op |-> "generate_compliance_audit",
                            status |-> "ok",
                            audit_type |-> audit_type,
                            sample_ids |-> sample_ids,
                            package |-> Len(packages'),
                            audit_scope |->
                              [total_samples_available |-> Len(samples),
                               samples_audited |->
                                 Len(SelectedSamples(audit_type,
                                                     sample_ids))]]
                 ELSE /\ audit_trail' = audit_trail
                      /\ trail_result' =
                           [op |-> "generate_compliance_audit",
                            status |-> result'.status,
                            audit_type |-> audit_type,
                            sample_ids |-> sample_ids]
  /\ UNCHANGED <<metaVars, registryVars, keyVars, proofVars, hashVars,
                 threadVars, tailVars>>

\* generate_audit_package called on the engine of the dataset
EngineAuditPackage(sample_ids) ==
  /\ Len(packages) < MaxTrailAudits
  /\ GenerateAuditPackageCall(sample_ids)
  /\ trail_result' = [op |-> "generate_audit_package",
                      status |-> result'.status,
                      sample_ids |-> sample_ids]
  /\ UNCHANGED <<audit_trail, metaVars, registryVars, keyVars, proofVars,
                 hashVars, threadVars, tailVars>>

TrailNext ==
  \/ \E count \in BatchSizes, sample_data \in DataValues :
       AddTrainingSamples(count, sample_data)
  \/ \E audit_type \in AuditTypes, sample_ids \in SelectiveIds :
       GenerateComplianceAudit(audit_type, sample_ids)
  \/ \E sample_ids \in {<<>>, <<IntId(1)>>} : EngineAuditPackage(sample_ids)

TrailSpec == Init /\ [][TrailNext]_vars

\* ------------------------------------------------------------ Merkle root
\* compute_merkle_root_for_integrity: the root over the hashes of the
\* registered samples, in registry order, without keeping the levels
compute_merkle_root_for_integrity(registry) ==
  LET ps == registry.plaintext_samples
      sample_hashes == [i \in 1..Len(ps) |-> hash_sample(ps[i].raw_data)]
      levels == BuildLevels(sample_hashes)
  IN levels[Len(levels)][1]

\* The registry of a dataset registered without the sample at a position
\* of the list: the remaining samples under their own ids
RegistryWithout(registry, removed) ==
  LET ps == registry.plaintext_samples
      kept == SubSeq(ps, 1, removed - 1) \o SubSeq(ps, removed + 1, Len(ps))
  IN [registered |-> TRUE,
      plaintext_samples |->
        [i \in 1..Len(kept) |-> [kept[i] EXCEPT !.sample_index = i - 1]],
      sample_count |-> Len(kept)]

\* Both root computations of the builder on a registry
RootsOf(registry) ==
  [integrity |-> compute_merkle_root_for_integrity(registry),
   audit |-> build_tree_during_audit(registry, <<>>).root_hash]

\* Samples 1, 2, ... are registered with the data of the list
RegisterForRoot(data_list) ==
  /\ root_registry = <<>>
  /\ root_registry' = <<RegistryOf(data_list)>>
  /\ UNCHANGED root_outcome
  /\ UNCHANGED <<now, engineVars, metaVars, registryVars, keyVars, proofVars,
                 hashVars, threadVars, trailVars, cacheVars>>

\* The root of the dataset, and the root of the dataset without one sample
ComputeRoots(removed) ==
  /\ root_registry # <<>>
  /\ root_outcome = <<>>
  /\ removed \in 1..root_registry[1].sample_count
  /\ root_outcome' =
       <<[removed |-> removed,
          whole |-> RootsOf(root_registry[1]),
          rest |-> RootsOf(RegistryWithout(root_registry[1], removed))]>>
  /\ UNCHANGED root_registry
  /\ UNCHANGED <<now, engineVars, metaVars, registryVars, keyVars, proofVars,
                 hashVars, threadVars, trailVars, cacheVars>>

RootNext ==
  \/ \E n \in 2..MaxLeaves : \E data_list \in [1..n -> DataValues] :
       RegisterForRoot(data_list)
  \/ \E removed \in 1..MaxLeaves : ComputeRoots(removed)

RootSpec == Init /\ [][RootNext]_vars

\* ------------------------------------------------------------ proof cache
\* ProofCache: the sizes it is constructed with, the ids and proofs offered
\* to its calls, and the readings of the clock.
CacheSizes == {0, 1, 2}
CacheDatasetIds == {<<"a">>, <<"b">>}
CacheSampleIds == {<<"1">>, <<"2">>}
ProofData == {1, 2}
MaxCacheClock == 2
MaxLookups == 2

\* f"{dataset_id}:{sample_id}"
CacheKey(dataset_id, sample_id) == dataset_id \o <<":">> \o sample_id
\* key.startswith(prefix)
StartsWith(key, prefix) ==
  Len(prefix) <= Len(key) /\ SubSeq(key, 1, Len(prefix)) = prefix

\* del d[k] for each key k of the set
DeleteKeys(d, ks) == SelectSeq(d, LAMBDA entry : entry.id \notin ks)
\* The order of use after key k was stored or retrieved
Used(recency, k) == Append(SelectSeq(recency, LAMBDA x : x # k), k)

\* ProofCache.__init__(max_cache_size)
NewProofCache(max_cache_size) ==
  /\ proof_cache = <<>>
  /\ proof_cache' = <<[max_cache_size |-> max_cache_size, cache |-> <<>>,
                       access_times |-> <<>>, hit_count |-> 0,
                       miss_count |-> 0]>>
  /\ cache_result' = [op |-> "init"]
  /\ UNCHANGED <<cache_clock, cache_recency>>
  /\ UNCHANGED <<now, engineVars, metaVars, registryVars, keyVars, proofVars,
                 hashVars, threadVars, trailVars, rootVars>>

\* time.time() reads later between two calls
CacheTick ==
  /\ cache_clock < MaxCacheClock
  /\ cache_clock' = cache_clock + 1
  /\ UNCHANGED <<proof_cache, cache_recency, cache_result>>
  /\ UNCHANGED <<now, engineVars, metaVars, registryVars, keyVars, proofVars,
                 hashVars, threadVars, trailVars, rootVars>>

\* ProofCache.get_proof(dataset_id, sample_id)
GetProof(dataset_id, sample_id) ==
  /\ proof_cache # <<>>
  /\ proof_cache[1].hit_count + proof_cache[1].miss_count < MaxLookups
  /\ LET c == proof_cache[1]
         cache_key == CacheKey(dataset_id, sample_id)
     IN IF cache_key \in Keys(c.cache)
          THEN /\ proof_cache' =
                    <<[c EXCEPT
                         !.access_times =
                           Put(@, [id |-> cache_key, time |-> cache_clock]),
                         !.hit_count = @ + 1]>>
               /\ cache_recency' = Used(cache_recency, cache_key)
               /\ cache_result' =
                    [op |-> "get_proof", key |-> cache_key,
                     returned |-> Some(Get(c.cache, cache_key).proof_data)]
          ELSE /\ proof_cache' = <<[c EXCEPT !.miss_count = @ + 1]>>
               /\ cache_recency' = cache_recency
               /\ cache_result' = [op |-> "get_proof", key |-> cache_key,
                                   returned |-> None]
  /\ UNCHANGED cache_clock
  /\ UNCHANGED <<now, engineVars, metaVars, registryVars, keyVars, proofVars,
                 hashVars, threadVars, trailVars, rootVars>>

\* min(self._access_times.keys(), key=...): the first key, in the order of
\* the dict, among those with the least access time
LruKey(access_times) ==
  access_times[CHOOSE i \in 1..Len(access_times) :
                 /\ \A j \in 1..Len(access_times) :
                      access_times[i].time <= access_times[j].time
                 /\ \A j \in 1..(i - 1) :
                      access_times[j].time > access_times[i].time].id

\* ProofCache._evict_lru
evict_lru(c) ==
  IF c.access_times = <<>> THEN c
  ELSE [c EXCEPT
          !.cache = DeleteKeys(@, {LruKey(c.access_times)}),
          !.access_times = DeleteKeys(@, {LruKey(c.access_times)})]

\* ProofCache.store_proof(dataset_id, sample_id, proof_data)
StoreProof(dataset_id, sample_id, proof_data) ==
  /\ proof_cache # <<>>
  /\ LET c == proof_cache[1]
         cache_key == CacheKey(dataset_id, sample_id)
         full == Len(c.cache) >= c.max_cache_size
         evicting == full /\ c.access_times # <<>>
         c1 == IF full THEN evict_lru(c) ELSE c
     IN /\ proof_cache' =
             <<[c1 EXCEPT
                  !.cache = Put(@, [id |-> cache_key,
                                   proof_data |-> proof_data]),
                  !.access_times = Put(@, [id |-> cache_key,
                                          time |-> cache_clock])]>>
        /\ cache_recency' =
             Used(SelectSeq(cache_recency,
                            LAMBDA x : x \in Keys(c1.cache)), cache_key)
        /\ cache_result' =
             [op |-> "store_proof", key |-> cache_key,
              evicted |-> IF evicting THEN Some(LruKey(c.access_times))
                          ELSE None,
              least_recent |-> IF cache_recency = <<>> THEN None
                               ELSE Some(Head(cache_recency))]
  /\ UNCHANGED cache_clock
  /\ UNCHANGED <<now, engineVars, metaVars, registryVars, keyVars, proofVars,
                 hashVars, threadVars, trailVars, rootVars>>

\* ProofCache.clear_dataset(dataset_id)
ClearDataset(dataset_id) ==
  /\ proof_cache # <<>>
  /\ LET c == proof_cache[1]
         keys_to_remove == {k \in Keys(c.cache) :
                              StartsWith(k, dataset_id \o <<":">>)}
     IN /\ keys_to_remove # {}
        /\ proof_cache' =
             <<[c EXCEPT !.cache = DeleteKeys(@, keys_to_remove),
                         !.access_times = DeleteKeys(@, keys_to_remove)]>>
        /\ cache_recency' =
             SelectSeq(cache_recency, LAMBDA x : x \notin keys_to_remove)
        /\ cache_result' = [op |-> "clear_dataset", dataset_id |-> dataset_id]
  /\ UNCHANGED cache_clock
  /\ UNCHANGED <<now, engineVars, metaVars, registryVars, keyVars, proofVars,
                 hashVars, threadVars, trailVars, rootVars>>

CacheNext ==
  \/ \E max_cache_size \in CacheSizes : NewProofCache(max_cache_size)
  \/ CacheTick
  \/ \E dataset_id \in CacheDatasetIds, sample_id \in CacheSampleIds :
       \/ GetProof(dataset_id, sample_id)
       \/ \E proof_data \in ProofData :
            StoreProof(dataset_id, sample_id, proof_data)
  \/ \E dataset_id \in CacheDatasetIds : ClearDataset(dataset_id)

CacheSpec == Init /\ [][CacheNext]_vars

\* ================================================================= claims
\* The registry as it was when package i was generated
RegistryAt(i) == [plaintext_samples |-> packages[i].registered]
\* A step that is a call of the engine (the clock stands still)
EngineCall(op) == now' = now /\ result'.op = op

\* C1: every capsule of every returned package carries a Merkle proof that
\* verifies against the package's own root, and that root is the root of the
\* tree over all samples registered when the package was generated.
C1_ProofsVerifyAgainstPackageRoot ==
  \A i \in 1..Len(packages) :
    /\ packages[i].package.merkle_tree_info.root_hash =
         build_tree_during_audit(RegistryAt(i), <<>>).root_hash
    /\ \A j \in 1..Len(packages[i].package.materialized_capsules) :
         MerkleProofVerify(
           packages[i].package.materialized_capsules[j].merkle_proof,
           packages[i].package.merkle_tree_info.root_hash)

\* C2: verifying a package in which one bit of a capsule's ciphertext was
\* flipped reports a capsule integrity (authentication) failure, and both
\* verify_audit_package and verify_audit_integrity report overall_valid
\* false.
C2_FlippedCiphertextRejected ==
  (result.op = "verify_audit_integrity" /\ result.tamper.kind = "flip")
    => /\ ~result.capsule_verification.capsule_integrity_valid
       /\ ~result.capsule_verification.overall_valid
       /\ ~result.verification_results.overall_valid

\* The package that the last verification was given
Presented == Tampered(packages[result.of].package, result.tamper)

\* C3: when some capsule's proof of the verified package does not hash up
\* to the package's merkle_tree_info.root_hash, verify_audit_package reports
\* merkle_proofs_valid false and overall_valid false.
C3_ProofsCheckedAgainstPackageRoot ==
  (/\ result.op = "verify_audit_integrity"
   /\ \E j \in 1..Len(Presented.materialized_capsules) :
        ~MerkleProofVerify(Presented.materialized_capsules[j].merkle_proof,
                           Presented.merkle_tree_info.root_hash))
    => /\ ~result.capsule_verification.merkle_proofs_valid
       /\ ~result.capsule_verification.overall_valid

\* C4: a generate_audit_package call that fails adds no capsule to the
\* materialized-capsule cache and returns no package.
C4_FailedAuditCachesNothing ==
  [][(EngineCall("generate_audit_package") /\ result'.status # "ok")
       => /\ materialized_capsules' = materialized_capsules
          /\ packages' = packages]_vars

\* C5: add_sample with an id that is already registered fails with
\* DuplicateSample and leaves the sample data, its metadata, the sample
\* count and the registration indices unchanged.
C5_DuplicateAddRejected ==
  [][(EngineCall("add_sample") /\ result'.sample_id \in Keys(samples))
       => /\ result'.status = "DuplicateSample"
          /\ samples' = samples
          /\ sample_metadata' = sample_metadata
          /\ sample_registry' = sample_registry]_vars

\* C6: the dataset_hash and total_samples a package reports, in its
\* comprehensive_hash_info and in the metadata of its capsules, are computed
\* over exactly the samples registered when the package was generated.
C6_DatasetHashOverCurrentSamples ==
  \A i \in 1..Len(packages) :
    /\ packages[i].package.comprehensive_hash_info.dataset_hashes # <<>>
    /\ packages[i].package.comprehensive_hash_info.dataset_hashes[1].dataset_hash
         = ComputeDatasetHashInfo(RegistryAt(i)).dataset_hash
    /\ packages[i].package.comprehensive_hash_info.dataset_hashes[1].total_samples
         = ComputeDatasetHashInfo(RegistryAt(i)).total_samples
    /\ \A j \in 1..Len(packages[i].package.materialized_capsules) :
         packages[i].package.materialized_capsules[j].metadata.dataset_hash
           = ComputeDatasetHashInfo(RegistryAt(i)).dataset_hash

\* Packages i and j come from two audits of one dataset state with the same
\* list of sample ids: no sample was added between them.
SameAudit(i, j) ==
  /\ i < j
  /\ packages[i].package.requested_samples
       = packages[j].package.requested_samples
  /\ packages[i].package.performance_metrics.samples_added
       = packages[j].package.performance_metrics.samples_added

\* C7: in two packages generated for the same dataset state and the same id
\* list, each sample's capsule fingerprint is the same while its nonce and
\* its ciphertext differ.
C7_SameFingerprintFreshNonce ==
  \A i, j \in 1..Len(packages) :
    SameAudit(i, j) =>
      \A k \in 1..Len(packages[i].package.materialized_capsules) :
        /\ packages[i].package.materialized_capsules[k].metadata.capsule_hash
             = packages[j].package.materialized_capsules[k].metadata.capsule_hash
        /\ packages[i].package.materialized_capsules[k].encrypted_data.nonce
             # packages[j].package.materialized_capsules[k].encrypted_data.nonce
        /\ packages[i].package.materialized_capsules[k].encrypted_data.ciphertext
             # packages[j].package.materialized_capsules[k].encrypted_data.ciphertext

\* A step that is a call of the metadata manager
ManagerCall(op) == now' = now /\ meta_result'.op = op

\* Entry 0 has no previous hash and every later entry carries the hash of
\* the entry before it
HashChained(log) ==
  /\ log # <<>> => log[1].previous_hash = <<>>
  /\ \A i \in 2..Len(log) : log[i].previous_hash = Sha256Json(log[i - 1])

\* C8: after every store_audit_metadata call the global tamper log is hash
\* chained (entry 0 has previous_hash null, entry i the SHA-256 of the
\* canonical form of entry i-1), and the store leaves every earlier entry
\* in place and unchanged.
C8_TamperLogChained ==
  [][ManagerCall("store_audit_metadata")
       => /\ HashChained(tamper_log')
          /\ Len(tamper_log') = Len(tamper_log) + 1
          /\ SubSeq(tamper_log', 1, Len(tamper_log)) = tamper_log]_vars

\* C8 happens: three stores, two of them of the same audit id
C8_Witness ==
  /\ meta_result.op = "store_audit_metadata"
  /\ Len(tamper_log) = 3
  /\ tamper_log[1].audit_id = tamper_log[3].audit_id
  /\ tamper_log[2].audit_id # tamper_log[1].audit_id

\* The first position at which the chain of log breaks, Len(log) + 1 if none
FirstBreak(log) ==
  CHOOSE k \in 1..(Len(log) + 1) :
    /\ HashChained(SubSeq(log, 1, k - 1))
    /\ k <= Len(log) => ~HashChained(SubSeq(log, 1, k))

\* C9: loading a complete file keeps every entry of its tamper log and marks
\* exactly the entries from the first break of the chain on as untrusted.
C9_LoadMarksUntrusted ==
  [][(/\ ManagerCall("load_metadata")
      /\ storage_file' = storage_file
      /\ storage_file.kind = "complete")
       => /\ tamper_log' = storage_file.doc[1].tamper_log
          /\ untrusted' = FirstBreak(tamper_log')..Len(tamper_log')]_vars

\* C10: whatever happens to the save of a store_audit_metadata call, the
\* file afterwards holds the complete previous document or the complete new
\* one.
C10_NoPartialWrite ==
  [][ManagerCall("store_audit_metadata")
       => \/ storage_file' = storage_file
          \/ storage_file' = CompleteFile(Document(metadata_store',
                                                   tamper_log'))]_vars

\* A step that is a call of the registry
RegistryCall(op) == registry_calls' # registry_calls /\ reg_result'.op = op

ParentsOf(reg, v) ==
  {reg[i].value.parent_version :
     i \in {j \in 1..Len(reg) :
              /\ IsModelVersionRecord(reg[j].value)
              /\ reg[j].value.model_version = v
              /\ reg[j].value.parent_version # <<>>}}
RECURSIVE ParentClosure(_, _)
ParentClosure(reg, S) ==
  IF UNION {ParentsOf(reg, v) : v \in S} \subseteq S THEN S
  ELSE ParentClosure(reg, S \cup UNION {ParentsOf(reg, v) : v \in S})
\* Version v and everything above it in the lineage graph
SelfAndAncestors(reg, v) == ParentClosure(reg, {v})

\* C12: a registration whose parent link would close a cycle (the parent is
\* the version itself or has the version among its ancestors) fails with
\* CycleDetected and leaves the registry and its indexes unchanged.
C12_CycleRejected ==
  [][(/\ RegistryCall("register_model_dataset")
      /\ reg_result'.parent_version # <<>>
      /\ reg_result'.model_version
           \in SelfAndAncestors(model_registry, reg_result'.parent_version))
       => /\ reg_result'.status = "CycleDetected"
          /\ UNCHANGED <<model_registry, version_lineage, dataset_models,
                         model_datasets, registry_stats>>]_vars

\* C13: get_model_lineage returns a finite ancestor list for every model
\* version in every reachable registry.
C13_LineageTerminates ==
  \A v \in ModelVersions :
    /\ get_model_lineage(v).status = "ok"
    /\ get_model_lineage(v).lineage_depth <= RecursionLimit

\* C14: find_compatible_models(dataset_hash, model_type) returns exactly the
\* model-version records with that dataset hash (and that model type when
\* one is given), whether or not checkpoints are stored.
C14_CompatibleModelsExact ==
  \A h \in DatasetHashes, t \in ModelTypes \cup {NoModelType} :
    /\ find_compatible_models(model_registry, h, t).status = "ok"
    /\ {find_compatible_models(model_registry, h, t).records[i] :
          i \in 1..Len(find_compatible_models(model_registry, h, t).records)}
         = {model_registry[i].value :
              i \in {j \in 1..Len(model_registry) :
                       /\ IsModelVersionRecord(model_registry[j].value)
                       /\ model_registry[j].value.dataset_hash = h
                       /\ (t = NoModelType
                           \/ model_registry[j].value.model_type = t)}}

\* A step that is a call of a key manager
KeyCall(op) == key_calls' # key_calls /\ key_result'.op = op
\* The inputs a logged derivation ran on
SameKeyInputs(a, b) ==
  /\ a.session.passphrase = b.session.passphrase
  /\ a.session.salt = b.session.salt
  /\ a.session.dataset_id = b.session.dataset_id
  /\ a.sample_id = b.sample_id

SessionFields == {"dataset_id", "passphrase", "salt", "created_at"}
\* C16: no derived key is stored: after every call the session entries
\* hold only dataset_id, passphrase, salt and the session token, the key
\* cache of the hierarchy is empty and the salt cache holds salts only; a
\* create_session call runs no derivation.
C16_NoDerivedKeyStored ==
  [][(key_calls' # key_calls) =>
       /\ \A m \in Managers :
            /\ key_managers'[m].master_keys = EmptyMap
            /\ DOMAIN key_managers'[m] =
                 {"active_sessions", "cached_salts", "master_keys"}
            /\ \A identifier \in DOMAIN key_managers'[m].cached_salts :
                 key_managers'[m].cached_salts[identifier] = RandomSalt[m]
            /\ \A s \in DOMAIN key_managers'[m].active_sessions :
                 DOMAIN key_managers'[m].active_sessions[s] = SessionFields
       /\ KeyCall("create_session") =>
            ~key_result'.derived /\ key_log' = key_log]_vars
\* Keys were derived, by an encryption and its decryption, in a session
\* that is still open
C16_Witness ==
  /\ key_result.op = "decrypt_capsule_data"
  /\ key_result.status = "ok"
  /\ Cardinality(key_log) >= 1
  /\ key_result.session_id \in
       DOMAIN key_managers[key_result.manager].active_sessions

\* C17: close_session(s) removes s and nothing else, so that the other
\* sessions derive the keys they derived before; a get_capsule_key,
\* encrypt_capsule_data or decrypt_capsule_data call fails with KeyError
\* and derives nothing exactly when its session is not open.
C17_CloseRemovesOnlyThatSession ==
  [][/\ KeyCall("close_session") =>
          /\ key_managers'[key_result'.manager].active_sessions =
               Without(key_managers[key_result'.manager].active_sessions,
                       key_result'.session_id)
          /\ key_result'.session_id \notin
               DOMAIN key_managers'[key_result'.manager].active_sessions
          /\ \A m \in Managers \ {key_result'.manager} :
               key_managers'[m] = key_managers[m]
          /\ \A m \in Managers :
               \A s \in DOMAIN key_managers'[m].active_sessions :
                 \A sample_id \in KeySampleIds :
                   get_capsule_key(key_managers'[m].active_sessions[s],
                                   sample_id)
                     = get_capsule_key(key_managers[m].active_sessions[s],
                                       sample_id)
          /\ key_log' = key_log
     /\ (\/ KeyCall("get_capsule_key")
         \/ KeyCall("encrypt_capsule_data")
         \/ KeyCall("decrypt_capsule_data")) =>
          IF key_result'.session_id \in
               DOMAIN key_managers[key_result'.manager].active_sessions
            THEN key_result'.status # "KeyError" /\ key_result'.derived
            ELSE /\ key_result'.status = "KeyError"
                 /\ ~key_result'.derived
                 /\ key_log' = key_log
                 /\ envelope' = envelope]_vars
\* A call on a closed session failed while another session of the same
\* manager is open
C17_Witness ==
  /\ key_result.status = "KeyError"
  /\ <<key_result.manager, key_result.session_id>> \in closed_sessions
  /\ DOMAIN key_managers[key_result.manager].active_sessions # {}

\* C18: decrypting what encrypt_capsule_data returned, in the same session
\* and for the same sample_id, gives the plaintext back; when the
\* ciphertext, the tag, the nonce or the additional data was changed, or
\* another sample_id is passed, decryption fails with InvalidTag.
C18_RoundTripAndAuthentication ==
  [][(KeyCall("decrypt_capsule_data") /\ key_result'.status # "KeyError") =>
       /\ (/\ envelope[1].changed = "nothing"
           /\ envelope[1].manager = key_result'.manager
           /\ envelope[1].session_id = key_result'.session_id
           /\ envelope[1].session =
                key_managers[key_result'.manager]
                  .active_sessions[key_result'.session_id]
           /\ envelope[1].sample_id = key_result'.sample_id)
            => /\ key_result'.status = "ok"
               /\ key_result'.plaintext = <<envelope[1].data>>
       /\ (\/ envelope[1].changed # "nothing"
           \/ envelope[1].sample_id # key_result'.sample_id)
            => key_result'.status = "InvalidTag"]_vars

\* ceil(log2(max(tree_size, 1)))
RECURSIVE CeilLog2From(_, _, _)
CeilLog2From(n, k, power) ==
  IF power >= n THEN k ELSE CeilLog2From(n, k + 1, 2 * power)
CeilLog2(tree_size) == CeilLog2From(tree_size, 0, 1)
\* The leaf hashes of a tree
LeafHashes(tree) ==
  {tree.tree_levels[1][i] : i \in 1..Len(tree.tree_levels[1])}

\* C19: verify_proof accepts a proof against the root of a tree exactly
\* when the proof's sample_hash is a leaf hash of that tree and its path
\* has ceil(log2(max(tree_size, 1))) entries or one fewer; so a proof for
\* an internal node, or one whose path length does not fit its tree_size,
\* is rejected.
C19_ProofSoundness ==
  proof_verdict # <<>> =>
    (proof_verdict[1] <=>
       /\ presented_proof[1].sample_hash \in LeafHashes(proof_tree[1])
       /\ Len(presented_proof[1].proof_path) \in
            {CeilLog2(presented_proof[1].tree_size),
             CeilLog2(presented_proof[1].tree_size) - 1})

\* C20: a set of samples registered in two different orders has the same
\* dataset hash, in the single-hash form and in the chunked form, whatever
\* the types of the sample ids.
C20_OrderIndependentDatasetHash ==
  hash_outcome # <<>> =>
    /\ hash_outcome[1].single.first.dataset_hash
         = hash_outcome[1].single.second.dataset_hash
    /\ hash_outcome[1].chunked.first.dataset_hash
         = hash_outcome[1].chunked.second.dataset_hash

\* Every thread has returned from its call
AllDone == \A t \in Threads : thread_pc[t] = "done"

\* C21: when threads add samples with distinct ids at the same time, at the
\* end every sample is stored and registered, sample_count is the number of
\* calls and the registration indices are 0..n-1, each used once.
C21_ConcurrentAddsSerialized ==
  AllDone =>
    /\ Keys(samples) = {ThreadSampleId(t) : t \in Threads}
    /\ Keys(sample_registry.plaintext_samples)
         = {ThreadSampleId(t) : t \in Threads}
    /\ sample_registry.sample_count = Cardinality(Threads)
    /\ {sample_registry.plaintext_samples[i].sample_index :
           i \in 1..Len(sample_registry.plaintext_samples)}
         = 0..(Cardinality(Threads) - 1)

\* C22: when threads store records on one metadata store at the same time,
\* the global tamper log is hash chained at every moment (so every read sees
\* a chained prefix) and holds one entry per call at the end.
C22_ConcurrentStoresChained ==
  /\ HashChained(tamper_log)
  /\ AllDone => Len(tamper_log) = Cardinality(Threads)

\* C23: after cleanup the engine's key session is closed, no materialized
\* capsule is cached and the Merkle builder holds no cached proof of the
\* dataset, the audit-time proofs under the "audit_" keys included.
C23_CleanupClearsEverything ==
  [][EngineCall("cleanup") =>
       /\ SessionId \notin DOMAIN active_sessions'
       /\ DOMAIN materialized_capsules' = {}
       /\ DOMAIN cached_proofs' = {}]_vars

\* A step that is a call of the audit trail manager or of its engine
TrailCall(op) == trail_result'.op = op

\* A request for an audit of no sample: generate_audit_package([]) on the
\* engine, or a selective compliance audit with sample_ids = []
EmptyAuditRequest ==
  \/ /\ TrailCall("generate_audit_package")
     /\ trail_result'.sample_ids = <<>>
  \/ /\ TrailCall("generate_compliance_audit")
     /\ trail_result'.audit_type = "selective"
     /\ trail_result'.sample_ids = Some(<<>>)

\* C24: an audit request with an empty sample set, on the engine or as a
\* selective compliance audit, fails, materializes no capsule, builds no
\* tree and leaves audit_count and total_audits as they were.
C24_EmptyAuditRejected ==
  [][EmptyAuditRequest
       => /\ trail_result'.status # "ok"
          /\ materialized_capsules' = materialized_capsules
          /\ audit_time_trees' = audit_time_trees
          /\ audit_trail'.audit_count = audit_trail.audit_count
          /\ audit_trail'.total_audits = audit_trail.total_audits]_vars

\* C30: a full compliance audit of a dataset with samples returns one
\* capsule for every registered sample, and samples_audited equals
\* total_samples_available.
C30_FullAuditCoversDataset ==
  (/\ trail_result.op = "generate_compliance_audit"
   /\ trail_result.audit_type = "full"
   /\ Len(samples) >= 1)
    => /\ trail_result.status = "ok"
       /\ LET package == packages[trail_result.package].package
          IN /\ Len(package.materialized_capsules) = Len(samples)
             /\ \A i \in 1..Len(samples) :
                  \E j \in 1..Len(package.materialized_capsules) :
                    package.materialized_capsules[j].sample_id
                      = Str(samples[i].id)
       /\ trail_result.audit_scope.samples_audited
            = trail_result.audit_scope.total_samples_available

\* The proof presented is the one generate_proof_during_audit builds for a
\* sample of the tree
OwnProof ==
  /\ presented_proof # <<>>
  /\ presented_proof[1].sample_id \in Keys(proof_tree[1].sample_mapping)
  /\ presented_proof[1] = BuildProof(proof_tree[1], presented_proof[1].sample_id)

\* The index, from 0, of the ancestor at a level (from 1) of the leaf of
\* the proof presented
RECURSIVE AncestorIndex(_, _)
AncestorIndex(leaf_index, level) ==
  IF level = 1 THEN leaf_index ELSE AncestorIndex(leaf_index, level - 1) \div 2

C26_RootChangesOnRemoval ==
  root_outcome # <<>> =>
    /\ root_outcome[1].whole.integrity # root_outcome[1].rest.integrity
    /\ root_outcome[1].whole.audit # root_outcome[1].rest.audit

\* C27: after any store_proof, get_proof or clear_dataset the proof cache
\* holds at most max_cache_size entries, the cache and the access-time
\* table have the same keys, and an entry evicted by store_proof is the one
\* least recently stored or retrieved.
C27_BoundedLruCache ==
  proof_cache # <<>> =>
    /\ Len(proof_cache[1].cache) <= proof_cache[1].max_cache_size
    /\ Keys(proof_cache[1].cache) = Keys(proof_cache[1].access_times)
    /\ (cache_result.op = "store_proof" /\ cache_result.evicted # None)
         => cache_result.evicted = cache_result.least_recent

\* C28: the engine's verify_audit_package reports overall_valid for a
\* package of its own generate_audit_package that nobody changed, whatever
\* the share of the registered samples that was materialized.
C28_OwnPackageValid ==
  (result.op = "verify_audit_integrity" /\ result.tamper.kind = "none")
    => result.capsule_verification.overall_valid

\* C29: once a record was stored, verify_metadata_integrity of its audit id
\* returns metadata_found and integrity_valid as long as no field of the
\* record was changed.
C29_StoredMetadataVerifies ==
  (/\ meta_result.op = "verify_metadata_integrity"
   /\ meta_result.audit_id \in DOMAIN metadata_store)
    => /\ meta_result.returned.metadata_found
       /\ meta_result.returned.integrity_valid

====
